---- MODULE Spec2Model ----
(***************************************************************************)
(* Fleet record-keeping backend: the document store's trucks, employees    *)
(* and alerts collections, the truck/employee CRUD handlers that change    *)
(* the compliance dates and statuses, and the alert reconciliation and     *)
(* read path of GET /dashboard/alerts (src/src/routes/dashboard.py).       *)
(*                                                                         *)
(* Time is an integer number of clock units; datetime.utcnow() is a read   *)
(* of the monotone variable clock, which may advance between two reads.    *)
(* A stored date field is a record [k, d]:                                 *)
(*   k = "none"  : absent, null or "" (falsy in Python)                    *)
(*   k = "bad"   : a truthy value dateutil cannot parse                    *)
(*   k = "naive" : the instant d without a UTC offset                      *)
(*   k = "aware" : a string carrying a UTC offset ("...Z", "+05:30"):      *)
(*                 dateutil returns an offset-aware datetime, and Python   *)
(*                 raises TypeError when it is compared with the naive     *)
(*                 utcnow() value                                          *)
(***************************************************************************)
EXTENDS Integers, Sequences, FiniteSets, TLC

VARIABLES trucks, employees, alerts, clock, reads, done, resp,
          trips, subtrips, payments, expenses, last, analytics, inflight

vars == <<trucks, employees, alerts, clock, reads, done, resp,
          trips, subtrips, payments, expenses, last, analytics, inflight>>

(***************************************************************************)
(* Bounds of the model                                                     *)
(***************************************************************************)
MaxClock == 1
MaxAlerts == 2

(***************************************************************************)
(* Program constants                                                       *)
(***************************************************************************)
Horizon == 30
FetchLimit == 100
ResponseLimit == 10

\* the fleet of the main specification: one truck, one employee
TruckIds == {1}
EmployeeIds == {1}

\* the status values requests store: the two the handlers know and one other
Statuses == {"Active", "Inactive", "Maintenance"}
EmployeeStatuses == {"Active", "Inactive"}

None == [k |-> "none", d |-> 0]
Bad == [k |-> "bad", d |-> 0]
Aware == [k |-> "aware", d |-> 0]
Naive(d) == [k |-> "naive", d |-> d]

\* the instants requests supply: one early, one on the far side of the horizon
DateInputs == {0, Horizon + MaxClock}

\* what requests carry in the date fields. Truck fields are stored as received; the
\* three truck passes are copies of one another, and the value kinds are spread over
\* the fields: insurance_expiry is absent, offset-aware or a naive instant,
\* fc_expiry is unparsable or the early instant, permit_expiry is absent.
InsuranceInputs == {None, Aware} \cup {Naive(d) : d \in DateInputs}
FcInputs == {Bad, Naive(0)}
PermitInputs == {None}

InputsOf(attr) ==
    CASE attr = "insurance" -> InsuranceInputs
      [] attr = "fc" -> FcInputs
      [] attr = "permit" -> PermitInputs

\* what an employee request may carry in license_expiry
LicenseInputs == {None, Bad, Aware, Naive(0)}

ExpiryType(attr) ==
    CASE attr = "license" -> "license_expiry"
      [] attr = "insurance" -> "insurance_expiry"
      [] attr = "fc" -> "fc_expiry"
      [] attr = "permit" -> "permit_expiry"

ExpiredType(attr) ==
    CASE attr = "license" -> "license_expired"
      [] attr = "insurance" -> "insurance_expired"
      [] attr = "fc" -> "fc_expired"
      [] attr = "permit" -> "permit_expired"

OwnerKind(attr) == IF attr = "license" THEN "employee" ELSE "truck"

(***************************************************************************)
(* Alert collection primitives (pymongo calls on alert_collection)         *)
(***************************************************************************)
Matches(a, kind, owner, type) ==
    a.kind = kind /\ a.owner = owner /\ a.type = type /\ a.status = "Active"

\* find_one: the first matching document in natural order, 0 when none
FindOne(al, kind, owner, type) ==
    LET hits == {i \in DOMAIN al : Matches(al[i], kind, owner, type)}
    IN IF hits = {} THEN 0 ELSE CHOOSE i \in hits : \A j \in hits : i <= j

\* update_one({'_id': existing['_id']}, {'$set': {'status': 'Inactive'}})
DeactivateOne(al, i) ==
    IF i = 0 THEN al ELSE [al EXCEPT ![i].status = "Inactive"]

\* mutant: the update_many filter leaves out the alert type
DeactivateAnyType(al, kind, owner, type) ==
    [i \in DOMAIN al |->
        IF al[i].kind = kind /\ al[i].owner = owner /\ al[i].status = "Active"
        THEN [al[i] EXCEPT !.status = "Inactive"] ELSE al[i]]

\* update_many({owner, type, 'status': 'Active'}, {'$set': {'status': 'Inactive'}})
DeactivateMany(al, kind, owner, type) ==
    [i \in DOMAIN al |->
        IF Matches(al[i], kind, owner, type)
        THEN [al[i] EXCEPT !.status = "Inactive"] ELSE al[i]]

\* update_many({owner, 'status': 'Active'}, {'$set': {'status': 'Inactive'}})
DeactivateOwner(al, kind, owner) ==
    [i \in DOMAIN al |->
        IF al[i].kind = kind /\ al[i].owner = owner /\ al[i].status = "Active"
        THEN [al[i] EXCEPT !.status = "Inactive"] ELSE al[i]]

NewAlert(kind, owner, type, severity, date) ==
    [kind |-> kind, owner |-> owner, type |-> type, severity |-> severity,
     status |-> "Active", alert_date |-> date]

\* mutant: the insert does not look at the find_one result
InsertAlways(al, found, doc) == Append(al, doc)

InsertUnlessFound(al, found, doc) ==
    IF found = 0 THEN Append(al, doc) ELSE al

(***************************************************************************)
(* Entities                                                                *)
(***************************************************************************)
\* the ids of a set in natural (insertion) order: ids are handed out ascending
Ascending(S) ==
    [k \in 1..Cardinality(S) |->
        CHOOSE x \in S : Cardinality({y \in S : y < x}) = k - 1]

\* Model.find_all({'status': status})
FindAll(ents, status) ==
    Ascending({e \in DOMAIN ents : ents[e].status = status})

FieldOf(ent, attr) ==
    CASE attr = "license" -> ent.license
      [] attr = "insurance" -> ent.insurance
      [] attr = "fc" -> ent.fc
      [] attr = "permit" -> ent.permit

(***************************************************************************)
(* Reconciliation passes                                                   *)
(***************************************************************************)
RECURSIVE RemoveLoop(_, _, _, _)
RemoveLoop(al, kind, ents, ids) ==
    IF ids = <<>> THEN al
    ELSE RemoveLoop(DeactivateOwner(al, kind, Head(ids)), kind, ents, Tail(ids))

\* remove_inactive_employee_alerts / remove_inactive_truck_alerts
RemoveInactive(al, kind, ents) ==
    RemoveLoop(al, kind, ents, FindAll(ents, "Inactive"))

\* the parse of the date field: dateparse(expiry_date) unless it is falsy or a
\* datetime already; a parse error gives None
ParseExpiry(val) == IF val.k = "bad" THEN None ELSE val

\* mutant: the expired comparison made inclusive
IsExpiredInclusive(d, now) == d <= now

\* expiry_date < now
IsExpired(d, now) == d < now

\* expiry_date <= soon
IsSoon(d, soon) == d <= soon

\* One iteration of the loop of check_and_create_<attr>_expiry_alerts for the owner
\* whose date field holds val. ok = FALSE: the comparison with now raised.
ReconcileOne(al, attr, owner, val, soon, now) ==
    LET kind == OwnerKind(attr)
        existing == FindOne(al, kind, owner, ExpiryType(attr))
        expiry_date == ParseExpiry(val)
    IN  IF expiry_date.k = "none"
        THEN [alerts |-> DeactivateOne(al, existing), ok |-> TRUE]
        ELSE IF expiry_date.k = "aware"
        THEN [alerts |-> al, ok |-> FALSE]
        ELSE IF IsExpired(val.d, now)
        THEN LET a1 == DeactivateOne(al, existing)
                 expired_existing == FindOne(a1, kind, owner, ExpiredType(attr))
             IN [alerts |-> InsertUnlessFound(a1, expired_existing,
                               NewAlert(kind, owner, ExpiredType(attr), "danger", val.d)),
                 ok |-> TRUE]
        ELSE IF IsSoon(val.d, soon)
        THEN LET a1 == DeactivateMany(al, kind, owner, ExpiredType(attr))
             IN [alerts |-> InsertUnlessFound(a1, existing,
                               NewAlert(kind, owner, ExpiryType(attr), "warning", val.d)),
                 ok |-> TRUE]
        ELSE [alerts |-> DeactivateMany(DeactivateOne(al, existing),
                                        kind, owner, ExpiredType(attr)),
              ok |-> TRUE]

RECURSIVE PassLoop(_, _, _, _, _, _)
\* the for loop of a pass; st.done collects the (attr, owner) iterations completed
PassLoop(st, attr, ents, ids, soon, now) ==
    IF ids = <<>> \/ ~st.ok THEN st
    ELSE LET e == Head(ids)
             r == ReconcileOne(st.alerts, attr, e, FieldOf(ents[e], attr), soon, now)
         IN PassLoop([alerts |-> r.alerts, ok |-> r.ok,
                      done |-> IF r.ok THEN st.done \cup {<<attr, e>>} ELSE st.done],
                     attr, ents, Tail(ids), soon, now)

\* check_and_create_<attr>_expiry_alerts: t1 is the clock read for soon, t2 the one
\* for now; a pass is skipped when an earlier one raised
CheckAndCreate(st, attr, ents, t1, t2) ==
    IF ~st.ok THEN st
    ELSE PassLoop(st, attr, ents, FindAll(ents, "Active"), t1 + Horizon, t2)

\* the six passes get_alerts runs, with the eight clock reads r
Reconcile(al, trks, emps, r) ==
    LET a1 == RemoveInactive(al, "employee", emps)
        a2 == RemoveInactive(a1, "truck", trks)
        s0 == [alerts |-> a2, ok |-> TRUE, done |-> {}]
        s1 == CheckAndCreate(s0, "license", emps, r[1], r[2])
        s2 == CheckAndCreate(s1, "insurance", trks, r[3], r[4])
        s3 == CheckAndCreate(s2, "fc", trks, r[5], r[6])
    IN  CheckAndCreate(s3, "permit", trks, r[7], r[8])

(***************************************************************************)
(* Read path of get_alerts                                                 *)
(***************************************************************************)
\* the place of the Active alert i in the order by alert_date, alerts of equal
\* date in natural order
RankByDate(al, act, i) ==
    Cardinality({j \in act :
        \/ al[j].alert_date < al[i].alert_date
        \/ al[j].alert_date = al[i].alert_date /\ j < i}) + 1

\* find({'status': 'Active'}).sort('alert_date', 1): indices of the Active alerts
SortedActive(al) ==
    LET act == {i \in DOMAIN al : al[i].status = "Active"}
    IN  [k \in 1..Cardinality(act) |-> CHOOSE i \in act : RankByDate(al, act, i) = k]

Take(s, n) == SubSeq(s, 1, IF Len(s) < n THEN Len(s) ELSE n)

OwnerIsActive(a, trks, emps) ==
    IF a.kind = "truck"
    THEN a.owner \in DOMAIN trks /\ trks[a.owner].status = "Active"
    ELSE a.owner \in DOMAIN emps /\ emps[a.owner].status = "Active"

\* the alerts get_alerts returns, as indices into the collection: the Active alerts
\* by alert_date, limit(100), less those of non-Active owners, then [:10]
ReadPath(al, trks, emps) ==
    LET fetched == Take(SortedActive(al), FetchLimit)
        kept == SelectSeq(fetched, LAMBDA i : OwnerIsActive(al[i], trks, emps))
    IN  Take(kept, ResponseLimit)

(***************************************************************************)
(* State and operations                                                    *)
(***************************************************************************)
NoResp == [status |-> 0, alerts |-> <<>>]

\* the answer of the last trip, sub-trip, client-payment or expense request:
\* the handler, its HTTP status and the document it addressed; for a sub-trip
\* request also whether the trip's revenue differed from the sum of its
\* sub-trips' costs when the request arrived
NoLast == [op |-> "none", status |-> 0, id |-> 0, stale |-> FALSE]

\* the answer of the last get_analytics request, none before the first and after
\* any other request
NoAnalytics == [status |-> 0]

\* the requests that can be in progress at the same time, and the local state
\* of one that is not
Requests == {1, 2}
Idle == [pc |-> "idle"]

Init ==
    /\ trucks = <<>>
    /\ employees = <<>>
    /\ alerts = <<>>
    /\ clock = 0
    /\ reads = <<>>
    /\ done = {}
    /\ resp = NoResp
    /\ trips = <<>>
    /\ subtrips = {}
    /\ payments = {}
    /\ expenses = <<>>
    /\ last = NoLast
    /\ analytics = NoAnalytics
    /\ inflight = [p \in Requests |-> Idle]

\* a handler other than get_analytics ran from its first to its last statement:
\* no analytics answer, and the requests in progress are where they were
Quiet ==
    /\ analytics' = NoAnalytics
    /\ UNCHANGED inflight

\* a truck, employee or alert handler ran: the trips, sub-trips, client payments
\* and expenses collections are not touched
Fleet ==
    /\ last' = NoLast
    /\ UNCHANGED <<trips, subtrips, payments, expenses>>
    /\ Quiet

\* a handler that also empties the alerts collection
PlainDropsAlerts ==
    /\ reads' = <<>>
    /\ done' = {}
    /\ resp' = NoResp
    /\ alerts' = <<>>
    /\ UNCHANGED clock

\* a handler other than get_alerts ran: no reconciliation record, no alert response
Plain ==
    /\ reads' = <<>>
    /\ done' = {}
    /\ resp' = NoResp
    /\ UNCHANGED <<alerts, clock>>

\* POST /trucks: the three date fields are stored as received, status defaults to
\* Active (the 400 answers change nothing and are left out)
CreateTruck(status, ins, fc, permit) ==
    /\ trucks' = Append(trucks, [status |-> status, insurance |-> ins,
                                 fc |-> fc, permit |-> permit])
    /\ UNCHANGED employees
    /\ Plain
    /\ Fleet

SetField(ent, field, value) ==
    CASE field = "status" -> [ent EXCEPT !.status = value]
      [] field = "license" -> [ent EXCEPT !.license = value]
      [] field = "insurance" -> [ent EXCEPT !.insurance = value]
      [] field = "fc" -> [ent EXCEPT !.fc = value]
      [] field = "permit" -> [ent EXCEPT !.permit = value]

\* PUT /trucks/<id> with one updatable field in the body: stored as received
UpdateTruck(t, field, value) ==
    /\ t \in DOMAIN trucks
    /\ trucks' = [trucks EXCEPT ![t] = SetField(trucks[t], field, value)]
    /\ UNCHANGED employees
    /\ Plain
    /\ Fleet

\* DELETE /trucks/<id>
DeleteTruck(t) ==
    /\ t \in DOMAIN trucks
    /\ trucks' = [trucks EXCEPT ![t].status = "Inactive"]
    /\ UNCHANGED employees
    /\ Plain
    /\ Fleet

\* datetime.fromisoformat(value) and its storage: an offset-aware value is stored
\* as its UTC instant and read back naive; "bad" does not parse
FromIso(v) == Naive(v.d)

\* POST /employees: license_expiry parsed, None when falsy or unparsable
CreateEmployee(status, lic) ==
    /\ employees' = Append(employees,
           [status |-> status,
            license |-> IF lic.k \in {"none", "bad"} THEN None ELSE FromIso(lic)])
    /\ UNCHANGED trucks
    /\ Plain
    /\ Fleet

\* PUT /employees/<id> with license_expiry in the body: a truthy value is parsed and
\* skipped when it does not parse; a falsy one is stored as it is
UpdateEmployeeLicense(e, lic) ==
    /\ e \in DOMAIN employees
    /\ employees' = [employees EXCEPT ![e].license =
           IF lic.k = "none" THEN None
           ELSE IF lic.k = "bad" THEN @
           ELSE FromIso(lic)]
    /\ UNCHANGED trucks
    /\ Plain
    /\ Fleet

\* PUT /employees/<id> with status in the body: stored as received
UpdateEmployeeStatus(e, status) ==
    /\ e \in DOMAIN employees
    /\ employees' = [employees EXCEPT ![e].status = status]
    /\ UNCHANGED trucks
    /\ Plain
    /\ Fleet

\* DELETE /employees/<id>
DeleteEmployee(e) ==
    /\ e \in DOMAIN employees
    /\ employees' = [employees EXCEPT ![e].status = "Inactive"]
    /\ UNCHANGED trucks
    /\ Plain
    /\ Fleet

RECURSIVE NonDecreasing(_, _)
\* the sequences of n clock reads from lo on: the clock never runs backwards
NonDecreasing(n, lo) ==
    IF n = 0 THEN {<<>>}
    ELSE UNION {{<<v>> \o s : s \in NonDecreasing(n - 1, v)} : v \in lo..MaxClock}

\* GET /dashboard/alerts: the six passes, then the read path; an exception in a
\* pass ends the request with a 500 and keeps the writes made so far. The request
\* is explored while the collection stays within cap documents.
GetAlerts(r, cap) ==
    LET out == Reconcile(alerts, trucks, employees, r)
    IN  /\ Len(out.alerts) <= cap
        /\ alerts' = out.alerts
        /\ clock' = r[8]
        /\ reads' = r
        /\ done' = out.done
        /\ resp' = IF out.ok
                   THEN [status |-> 200, alerts |-> ReadPath(out.alerts, trucks, employees)]
                   ELSE [status |-> 500, alerts |-> <<>>]
        /\ UNCHANGED <<trucks, employees>>
        /\ Fleet

Next ==
    \/ /\ Len(trucks) < Cardinality(TruckIds)
       /\ \E st \in Statuses, i \in InsuranceInputs, f \in FcInputs, p \in PermitInputs :
              CreateTruck(st, i, f, p)
    \/ \E t \in TruckIds, st \in Statuses : UpdateTruck(t, "status", st)
    \/ \E t \in TruckIds, a \in {"insurance", "fc", "permit"} :
           \E v \in InputsOf(a) : UpdateTruck(t, a, v)
    \/ \E t \in TruckIds : DeleteTruck(t)
    \/ /\ Len(employees) < Cardinality(EmployeeIds)
       /\ \E st \in EmployeeStatuses, l \in LicenseInputs : CreateEmployee(st, l)
    \/ \E e \in EmployeeIds, l \in LicenseInputs :
           UpdateEmployeeLicense(e, l)
    \/ \E e \in EmployeeIds, st \in EmployeeStatuses : UpdateEmployeeStatus(e, st)
    \/ \E e \in EmployeeIds : DeleteEmployee(e)
    \/ \E r \in NonDecreasing(8, clock) : GetAlerts(r, MaxAlerts)

Spec == Init /\ [][Next]_vars

(***************************************************************************)
(* A large fleet, for the read path's limits: one employee whose license   *)
(* expires at instant 1, ReadTrucks trucks whose three dates are instant   *)
(* 0, all Active; get_alerts once the fleet is complete; then the trucks   *)
(* are put into status Maintenance one after the other. The clock stands   *)
(* at 0, so that every date is within the horizon.                         *)
(***************************************************************************)
ReadTrucks == 34

ReadCreateEmployee ==
    /\ employees = <<>>
    /\ CreateEmployee("Active", Naive(1))

ReadCreateTruck ==
    /\ Len(trucks) < ReadTrucks
    /\ CreateTruck("Active", Naive(0), Naive(0), Naive(0))

ReadRetire ==
    /\ alerts # <<>>
    /\ \E t \in DOMAIN trucks :
           /\ trucks[t].status = "Active"
           /\ \A u \in 1..(t - 1) : trucks[u].status # "Active"
           /\ UpdateTruck(t, "status", "Maintenance")

ReadGetAlerts ==
    /\ Len(trucks) = ReadTrucks
    /\ Len(employees) = 1
    /\ GetAlerts([i \in 1..8 |-> clock], 3 * ReadTrucks + 1)

NextRead == ReadCreateEmployee \/ ReadCreateTruck \/ ReadRetire \/ ReadGetAlerts

SpecRead == Init /\ [][NextRead]_vars

(***************************************************************************)
(* Trips, sub-trips, client payments and expenses.                         *)
(*                                                                         *)
(* A value of a JSON request body is a record [k, d]: an absent key        *)
(* (Missing), a number or numeric string (Num), a null or empty string     *)
(* (None), a string that float() and fromisoformat() reject (Bad), a date  *)
(* string (Naive). Status values are strings, Absent when the key is not   *)
(* in the body. Stored numbers are integers, stored dates are Naive(d) or  *)
(* None. Every employee carries position 'Driver', which is not stored in *)
(* this model. A truck_id is stored as the string the request carried.     *)
(***************************************************************************)
Missing == [k |-> "missing", d |-> 0]
Num(n) == [k |-> "num", d |-> n]
Absent == "absent"

\* parse_float(val, default): float(val), or the default, which is 0 at every call,
\* when float raises TypeError or ValueError
parse_float(val) == IF val.k = "num" THEN val.d ELSE 0

\* str.lower() and str.strip().lower() on the strings of the model
Lower(s) ==
    CASE s \in {"Active", "ACTIVE", "active"} -> "active"
      [] s \in {"Inactive", "inactive"} -> "inactive"
      [] s \in {"Received", "RECEIVED", "received"} -> "received"
      [] s \in {"Pending", "pending"} -> "pending"
      [] OTHER -> s

\* to_proper_case: str.capitalize()
to_proper_case(s) ==
    CASE s \in {"Received", "RECEIVED", "received"} -> "Received"
      [] s \in {"Pending", "pending"} -> "Pending"
      [] OTHER -> s

\* the truth value Python gives a body value: absent (get returns None), null and
\* the empty string are falsy
Truthy(v) == v.k \notin {"missing", "none"}

\* datetime.fromisoformat raises on a value that is no ISO date string
IsoRaises(v) == v.k \in {"missing", "none", "bad", "num"}

\* the answer recorded for a request
Reply(op, status, id) == [op |-> op, status |-> status, id |-> id, stale |-> FALSE]

\* the six cost fields of a trip, summed in the order of the source
SumOfCostsWithoutAdblue(r) ==
    r.toll + r.rto + r.driver_salary + r.labour_charges + r.extra_expense

SumOfCosts(r) ==
    r.toll + r.rto + r.driver_salary + r.labour_charges + r.adblue + r.extra_expense

\* a truck_id or driver_id string: the 24 hexadecimal digits of the _id of
\* document n (Hex), or a text that ObjectId.is_valid rejects (Text); Oid(n) is
\* the ObjectId itself, which no string equals
Hex(n) == [k |-> "hex", d |-> n]
Text(n) == [k |-> "text", d |-> n]
Oid(n) == [k |-> "oid", d |-> n]

\* a trip request body with the truck_id of the first truck and no other key but
\* those given
TripBody(number, driver, start, end) ==
    [trip_number |-> number, truck_id |-> Hex(1), driver_id |-> driver,
     start_date |-> start, end_date |-> end, status |-> Absent,
     revenue |-> Missing, distance_km |-> Missing, fuel_consumed |-> Missing,
     fuel_cost |-> Missing,
     toll |-> Missing, rto |-> Missing, adblue |-> Missing,
     driver_salary |-> Missing, labour_charges |-> Missing,
     extra_expense |-> Missing]

\* a check that lets every driver_id pass
DriverOkAlways(emps, driver_id) == TRUE

\* Employee.find_by_id(driver_id) and the test on its status and position
DriverOk(emps, driver_id) ==
    /\ driver_id \in DOMAIN emps
    /\ Lower(emps[driver_id].status) = "active"

\* a stored field against a query bound under $lte / $gte: a date bound matches
\* date fields only, a null bound matches null fields only
Lte(field, bound) ==
    IF bound.k = "none" THEN field.k = "none"
    ELSE field.k = "naive" /\ field.d <= bound.d

Gte(field, bound) ==
    IF bound.k = "none" THEN field.k = "none"
    ELSE field.k = "naive" /\ field.d >= bound.d

\* collection.find_one(driver_conflict_query); self is the trip left out by
\* update_trip, 0 in create_trip
DriverConflict(trs, self, driver_id, start_date, end_date) ==
    \E i \in DOMAIN trs :
        /\ i # self
        /\ trs[i].driver_id = driver_id
        /\ trs[i].status # "Cancelled"
        /\ \/ Lte(trs[i].start_date, start_date) /\ Gte(trs[i].end_date, start_date)
           \/ Lte(trs[i].start_date, end_date) /\ Gte(trs[i].end_date, end_date)
           \/ Gte(trs[i].start_date, start_date) /\ Lte(trs[i].end_date, end_date)

\* the other collections a trip or sub-trip handler leaves alone
TripFrame ==
    /\ Plain
    /\ Quiet
    /\ UNCHANGED <<trucks, employees, payments, expenses>>

\* create_trip up to its insert: the status it answers with, 201 when it goes on
\* to insert
CreateTripStatus(trs, emps, data) ==
    LET start_date == FromIso(data.start_date)
        end_date == IF Truthy(data.end_date) THEN FromIso(data.end_date) ELSE None
    IN  IF Missing \in {data.trip_number, data.truck_id, data.driver_id} THEN 400
        ELSE IF \E i \in DOMAIN trs : trs[i].trip_number = data.trip_number.d THEN 400
        ELSE IF IsoRaises(data.start_date) THEN 500
        ELSE IF Truthy(data.end_date) /\ IsoRaises(data.end_date) THEN 500
        ELSE IF ~DriverOk(emps, data.driver_id.d) THEN 400
        ELSE IF DriverConflict(trs, 0, data.driver_id.d, start_date, end_date) THEN 400
        ELSE 201

\* trip_doc of create_trip
CreateTripDoc(data) ==
    LET costs == [toll |-> parse_float(data.toll), rto |-> parse_float(data.rto),
                  adblue |-> parse_float(data.adblue),
                  driver_salary |-> parse_float(data.driver_salary),
                  labour_charges |-> parse_float(data.labour_charges),
                  extra_expense |-> parse_float(data.extra_expense)]
    IN  [trip_number |-> data.trip_number.d, truck_id |-> data.truck_id,
         driver_id |-> data.driver_id.d,
         start_date |-> FromIso(data.start_date),
         end_date |-> IF Truthy(data.end_date) THEN FromIso(data.end_date) ELSE None,
         distance_km |-> parse_float(data.distance_km),
         revenue |-> parse_float(data.revenue),
         fuel_consumed |-> parse_float(data.fuel_consumed),
         fuel_cost |-> parse_float(data.fuel_cost),
         toll |-> costs.toll, rto |-> costs.rto, adblue |-> costs.adblue,
         driver_salary |-> costs.driver_salary,
         labour_charges |-> costs.labour_charges,
         extra_expense |-> costs.extra_expense,
         other_expenses |-> SumOfCosts(costs),
         status |-> IF data.status = Absent THEN "Planned" ELSE data.status]

\* POST /trips
CreateTrip(data) ==
    LET status == CreateTripStatus(trips, employees, data)
    IN  /\ trips' = IF status = 201 THEN Append(trips, CreateTripDoc(data)) ELSE trips
        /\ last' = Reply("create_trip", status, IF status = 201 THEN Len(trips) + 1 ELSE 0)
        /\ UNCHANGED subtrips
        /\ TripFrame

\* a numeric field of update_doc: the parsed body value when the key is present
Updated(data_val, stored) == IF data_val = Missing THEN stored ELSE parse_float(data_val)

\* PUT /trips/<trip_id>
UpdateTrip(t, data) ==
    LET found == t \in DOMAIN trips
        trip == trips[t]
        number == IF data.trip_number = Missing THEN trip.trip_number ELSE data.trip_number.d
        driver_id == IF data.driver_id = Missing THEN trip.driver_id ELSE data.driver_id.d
        start_date == IF Truthy(data.start_date) THEN FromIso(data.start_date) ELSE trip.start_date
        end_date == IF Truthy(data.end_date) THEN FromIso(data.end_date) ELSE trip.end_date
        status ==
            IF ~found THEN 404
            ELSE IF /\ number # trip.trip_number
                    /\ \E i \in DOMAIN trips : i # t /\ trips[i].trip_number = number THEN 400
            ELSE IF Truthy(data.start_date) /\ IsoRaises(data.start_date) THEN 500
            ELSE IF Truthy(data.end_date) /\ IsoRaises(data.end_date) THEN 500
            ELSE IF ~DriverOk(employees, driver_id) THEN 400
            ELSE IF DriverConflict(trips, t, driver_id, start_date, end_date) THEN 400
            ELSE 200
        costs == [toll |-> Updated(data.toll, trip.toll),
                  rto |-> Updated(data.rto, trip.rto),
                  adblue |-> Updated(data.adblue, trip.adblue),
                  driver_salary |-> Updated(data.driver_salary, trip.driver_salary),
                  labour_charges |-> Updated(data.labour_charges, trip.labour_charges),
                  extra_expense |-> Updated(data.extra_expense, trip.extra_expense)]
        update_doc == [trip_number |-> number, driver_id |-> driver_id,
                       truck_id |-> IF data.truck_id = Missing THEN trip.truck_id
                                    ELSE data.truck_id,
                       start_date |-> start_date, end_date |-> end_date,
                       distance_km |-> Updated(data.distance_km, trip.distance_km),
                       revenue |-> Updated(data.revenue, trip.revenue),
                       fuel_consumed |-> Updated(data.fuel_consumed, trip.fuel_consumed),
                       fuel_cost |-> Updated(data.fuel_cost, trip.fuel_cost),
                       toll |-> costs.toll, rto |-> costs.rto, adblue |-> costs.adblue,
                       driver_salary |-> costs.driver_salary,
                       labour_charges |-> costs.labour_charges,
                       extra_expense |-> costs.extra_expense,
                       other_expenses |-> SumOfCosts(costs),
                       status |-> IF data.status = Absent THEN trip.status ELSE data.status]
    IN  /\ trips' = IF status = 200 THEN [trips EXCEPT ![t] = update_doc] ELSE trips
        /\ last' = Reply("update_trip", status, t)
        /\ UNCHANGED subtrips
        /\ TripFrame

\* DELETE /trips/<trip_id>: the trip is kept with status 'Cancelled'
DeleteTrip(t) ==
    /\ trips' = IF t \in DOMAIN trips THEN [trips EXCEPT ![t].status = "Cancelled"] ELSE trips
    /\ last' = Reply("delete_trip", IF t \in DOMAIN trips THEN 200 ELSE 404, t)
    /\ UNCHANGED subtrips
    /\ TripFrame

RECURSIVE SumCost(_)
\* sum(float(sub.get('cost', 0) or 0) for sub in ...): stored costs are numbers
SumCost(S) ==
    IF S = {} THEN 0
    ELSE LET x == CHOOSE y \in S : TRUE IN x.cost + SumCost(S \ {x})

\* the sum over the sub-trips of every trip
SumOfAllCosts(subs, trip_id) == SumCost(subs)

\* SubTrip.find_all({'trip_id': trip_id}) and the sum of the costs
SumOfSubtripCosts(subs, trip_id) == SumCost({x \in subs : x.trip_id = trip_id})

\* update_trip_revenue(trip_id), on the sub-trips as they are after the write
update_trip_revenue(trs, subs, trip_id) ==
    IF trip_id \in DOMAIN trs
    THEN [trs EXCEPT ![trip_id].revenue = SumOfSubtripCosts(subs, trip_id)]
    ELSE trs

\* the revenue of trip_id is not the sum of its sub-trips' costs
Stale(trs, subs, trip_id) ==
    /\ trip_id \in DOMAIN trs
    /\ trs[trip_id].revenue # SumCost({x \in subs : x.trip_id = trip_id})

\* the _id of an inserted document: one no stored document of the collection has
NewId(docs) == CHOOSE n \in 1..(Cardinality(docs) + 1) : \A x \in docs : x.id # n

\* a sub-trip request body with no key but those given (origin, destination,
\* client_name and cargo_weight are in every body and not stored in this model)
SubtripBody(date, end, cost) == [date |-> date, end_date |-> end, cost |-> cost]

\* POST /trips/<trip_id>/subtrips
CreateSubtrip(trip_id, data) ==
    LET status ==
            IF Missing \in {data.date, data.end_date, data.cost} THEN 400
            ELSE IF IsoRaises(data.date) \/ IsoRaises(data.end_date) THEN 500
            ELSE IF FromIso(data.date).d > FromIso(data.end_date).d THEN 400
            ELSE IF trip_id \notin DOMAIN trips THEN 404
            ELSE 201
        id == NewId(subtrips)
        subtrip_doc == [id |-> id, trip_id |-> trip_id, date |-> FromIso(data.date),
                        end_date |-> FromIso(data.end_date),
                        cost |-> parse_float(data.cost)]
        subs == subtrips \cup {subtrip_doc}
    IN  /\ subtrips' = IF status = 201 THEN subs ELSE subtrips
        /\ trips' = IF status = 201 THEN update_trip_revenue(trips, subs, trip_id) ELSE trips
        /\ last' = [Reply("create_subtrip", status, IF status = 201 THEN id ELSE 0)
                        EXCEPT !.stale = Stale(trips, subtrips, trip_id)]
        /\ TripFrame

\* SubTrip.find_by_id(subtrip_id) and the test that it belongs to trip_id
FindSubtrip(subs, trip_id, sid) == {x \in subs : x.id = sid /\ x.trip_id = trip_id}

\* PUT /trips/<trip_id>/subtrips/<subtrip_id>
UpdateSubtrip(trip_id, sid, data) ==
    LET hit == FindSubtrip(subtrips, trip_id, sid)
        subtrip == CHOOSE x \in hit : TRUE
        has_date == data.date # Missing
        has_end == data.end_date # Missing
        status ==
            IF hit = {} THEN 404
            ELSE IF has_date /\ IsoRaises(data.date) THEN 500
            ELSE IF has_end /\ IsoRaises(data.end_date) THEN 500
            ELSE IF data.cost # Missing /\ parse_float(data.cost) < 0 THEN 400
            ELSE IF /\ has_date /\ has_end
                    /\ FromIso(data.date).d > FromIso(data.end_date).d THEN 400
            ELSE 200
        updated == [id |-> sid, trip_id |-> trip_id,
                    date |-> IF has_date THEN FromIso(data.date) ELSE subtrip.date,
                    end_date |-> IF has_end THEN FromIso(data.end_date) ELSE subtrip.end_date,
                    cost |-> Updated(data.cost, subtrip.cost)]
        subs == (subtrips \ hit) \cup {updated}
    IN  /\ subtrips' = IF status = 200 THEN subs ELSE subtrips
        /\ trips' = IF status = 200 THEN update_trip_revenue(trips, subs, trip_id) ELSE trips
        /\ last' = [Reply("update_subtrip", status, sid)
                        EXCEPT !.stale = Stale(trips, subtrips, trip_id)]
        /\ TripFrame

\* DELETE /trips/<trip_id>/subtrips/<subtrip_id>
DeleteSubtrip(trip_id, sid) ==
    LET hit == FindSubtrip(subtrips, trip_id, sid)
        subs == subtrips \ hit
    IN  /\ subtrips' = subs
        /\ trips' = IF hit = {} THEN trips ELSE update_trip_revenue(trips, subs, trip_id)
        /\ last' = [Reply("delete_subtrip", IF hit = {} THEN 404 ELSE 200, sid)
                        EXCEPT !.stale = Stale(trips, subtrips, trip_id)]
        /\ TripFrame

(***************************************************************************)
(* Client payments                                                         *)
(***************************************************************************)
\* the other collections a client-payment handler leaves alone
PaymentFrame ==
    /\ Plain
    /\ Quiet
    /\ UNCHANGED <<trucks, employees, trips, subtrips, expenses>>

PaymentExistsNever(pays, trip_code, client_name) == FALSE

\* collection.find_one({'trip_code': ..., 'client_name': ...})
PaymentExists(pays, trip_code, client_name) ==
    \E x \in pays : x.trip_code = trip_code /\ x.client_name = client_name

\* POST /client-payments
CreateClientPayment(data) ==
    LET status ==
            IF \/ Missing \in {data.trip_code, data.client_name, data.cost,
                               data.advance_payment, data.balance}
               \/ data.status = Absent THEN 400
            ELSE IF PaymentExists(payments, data.trip_code.d, data.client_name.d) THEN 400
            ELSE 201
        id == NewId(payments)
        payment_doc == [id |-> id, trip_code |-> data.trip_code.d,
                        client_name |-> data.client_name.d,
                        cost |-> parse_float(data.cost),
                        advance_payment |-> parse_float(data.advance_payment),
                        balance |-> parse_float(data.balance),
                        status |-> to_proper_case(data.status)]
    IN  /\ payments' = IF status = 201 THEN payments \cup {payment_doc} ELSE payments
        /\ last' = Reply("create_client_payment", status, IF status = 201 THEN id ELSE 0)
        /\ PaymentFrame

\* the balance stored when the status is set to Received
ReceivedBalance(cost, advance_payment, balance) ==
    IF advance_payment + balance >= cost THEN 0 ELSE cost - advance_payment

\* PUT /client-payments/<payment_id>
UpdateClientPayment(pid, data) ==
    LET hit == {x \in payments : x.id = pid}
        payment == CHOOSE x \in hit : TRUE
        received == data.status # Absent /\ Lower(data.status) = "received"
        advance_payment == Updated(data.advance_payment, payment.advance_payment)
        balance == Updated(data.balance, payment.balance)
        updated ==
            IF received
            THEN [payment EXCEPT !.status = to_proper_case(data.status),
                                 !.balance = ReceivedBalance(payment.cost, advance_payment, balance),
                                 !.advance_payment = advance_payment]
            ELSE [payment EXCEPT !.advance_payment = advance_payment,
                                 !.balance = balance,
                                 !.status = IF data.status = Absent THEN @
                                            ELSE to_proper_case(data.status)]
    IN  /\ payments' = IF hit = {} THEN payments ELSE (payments \ hit) \cup {updated}
        /\ last' = Reply("update_client_payment", IF hit = {} THEN 404 ELSE 200, pid)
        /\ PaymentFrame

\* DELETE /client-payments/<payment_id>
DeleteClientPayment(pid) ==
    LET hit == {x \in payments : x.id = pid}
    IN  /\ payments' = payments \ hit
        /\ last' = Reply("delete_client_payment", IF hit = {} THEN 404 ELSE 200, pid)
        /\ PaymentFrame

(***************************************************************************)
(* Expenses, and the handlers that only read                               *)
(***************************************************************************)
\* the other collections an expense handler leaves alone
ExpenseFrame ==
    /\ Plain
    /\ Quiet
    /\ UNCHANGED <<trucks, employees, trips, subtrips, payments>>

\* POST /expenses: category and a valid expense_date are in every body and not
\* stored in this model; the amount is stored as received
CreateExpense(data) ==
    LET status ==
            IF data.expense_number = Missing \/ data.amount = Missing THEN 400
            ELSE IF \E i \in DOMAIN expenses :
                        expenses[i].expense_number = data.expense_number.d THEN 400
            ELSE 201
        expense_doc == [expense_number |-> data.expense_number.d,
                        amount |-> data.amount,
                        status |-> IF data.status = Absent THEN "Pending" ELSE data.status]
    IN  /\ expenses' = IF status = 201 THEN Append(expenses, expense_doc) ELSE expenses
        /\ last' = Reply("create_expense", status, IF status = 201 THEN Len(expenses) + 1 ELSE 0)
        /\ ExpenseFrame

\* PUT /expenses/<expense_id>
UpdateExpense(x, data) ==
    LET found == x \in DOMAIN expenses
        expense == expenses[x]
        number == IF data.expense_number = Missing THEN expense.expense_number
                  ELSE data.expense_number.d
        status ==
            IF ~found THEN 404
            ELSE IF /\ number # expense.expense_number
                    /\ \E i \in DOMAIN expenses :
                           i # x /\ expenses[i].expense_number = number THEN 400
            ELSE 200
        update_doc == [expense_number |-> number,
                       amount |-> IF data.amount = Missing THEN expense.amount ELSE data.amount,
                       status |-> IF data.status = Absent THEN expense.status ELSE data.status]
    IN  /\ expenses' = IF status = 200 THEN [expenses EXCEPT ![x] = update_doc] ELSE expenses
        /\ last' = Reply("update_expense", status, x)
        /\ ExpenseFrame

\* DELETE /expenses/<expense_id>: the expense is kept with status 'cancelled'
DeleteExpense(x) ==
    /\ expenses' = IF x \in DOMAIN expenses
                   THEN [expenses EXCEPT ![x].status = "cancelled"] ELSE expenses
    /\ last' = Reply("delete_expense", IF x \in DOMAIN expenses THEN 200 ELSE 404, x)
    /\ ExpenseFrame

\* GET /reports/<type>: queries only, no write to any collection
ReadOnly(op) ==
    /\ last' = Reply(op, 200, 0)
    /\ UNCHANGED <<trucks, employees, trips, subtrips, payments, expenses>>
    /\ Plain
    /\ Quiet

(***************************************************************************)
(* GET /dashboard/analytics. Instants are whole days, as in the alert       *)
(* passes. A quotient is kept as the pair of its numerator and denominator. *)
(* The region argument is not given.                                        *)
(***************************************************************************)
DefaultDays == 30
TopLimit == 5

\* a query-string argument that is not given, read with the default ''
NoFilter == [k |-> "empty", d |-> 0]

\* ObjectId(x) if ObjectId.is_valid(x) else x
FilterValue(q) == IF q.k = "hex" THEN Oid(q.d) ELSE q

\* str(x) of a stored id
Str(v) == IF v.k = "oid" THEN Hex(v.d) ELSE v

\* int(request.args.get('days', 30))
IntRaises(v) == v.k = "bad"
DaysOf(v) == IF v.k = "missing" THEN DefaultDays ELSE v.d

Zero == [num |-> 0, den |-> 1]

\* a / b if b > 0 else a
QuotientOrNumerator(a, b) == IF b > 0 THEN [num |-> a, den |-> b] ELSE [num |-> a, den |-> 1]

\* a / b if b > 0 else 0
Quotient(a, b) == IF b > 0 THEN [num |-> a, den |-> b] ELSE Zero

\* round(x, 2), in hundredths, a tie going to the even neighbour
Round2(r) ==
    LET n == 100 * r.num
        q == n \div r.den
        rem == n % r.den
    IN  [num |-> IF 2 * rem > r.den THEN q + 1
                 ELSE IF 2 * rem < r.den THEN q
                 ELSE IF q % 2 = 0 THEN q ELSE q + 1,
         den |-> 100]

\* Trip.find_all(trip_filter), as indices into the collection; a stored driver_id
\* is the string of an employee's _id
TripFilter(trs, start_date, end_date, truck_id, driver_id) ==
    {i \in DOMAIN trs :
        /\ Gte(trs[i].start_date, Naive(start_date))
        /\ Lte(trs[i].start_date, Naive(end_date))
        /\ truck_id # NoFilter => trs[i].truck_id = FilterValue(truck_id)
        /\ driver_id # NoFilter => Hex(trs[i].driver_id) = FilterValue(driver_id)}

CompletedTrips(trs, found) == {i \in found : trs[i].status = "Completed"}

TripField(trip, field) ==
    CASE field = "distance_km" -> trip.distance_km
      [] field = "revenue" -> trip.revenue
      [] field = "fuel_cost" -> trip.fuel_cost
      [] field = "fuel_consumed" -> trip.fuel_consumed
      [] field = "other_expenses" -> trip.other_expenses

\* sum(safe_float(trip.get(field)) for trip in the trips of S); safe_float of a
\* stored number is the number
RECURSIVE SumField(_, _, _)
SumField(trs, S, field) ==
    IF S = {} THEN 0
    ELSE LET i == CHOOSE j \in S : TRUE
         IN  TripField(trs[i], field) + SumField(trs, S \ {i}, field)

\* the trips of one day of the window: day <= start_date < next_day
DayTrips(trs, S, day) ==
    {i \in S : day <= trs[i].start_date.d /\ trs[i].start_date.d < day + 1}

\* the offset of the k-th entry of a daily series: for i in reversed(range(days))
DayOffset(days, k) == days - k

SeriesLength(days) == IF days > 0 THEN days ELSE 0

ProfitTrends(trs, S, start_date, days) ==
    [k \in 1..SeriesLength(days) |->
        LET day == start_date + DayOffset(days, k)
            day_trips == DayTrips(trs, S, day)
            day_revenue == SumField(trs, day_trips, "revenue")
            day_fuel_cost == SumField(trs, day_trips, "fuel_cost")
            day_other_expenses == SumField(trs, day_trips, "other_expenses")
        IN  [date |-> day,
             profit |-> day_revenue - day_fuel_cost - day_other_expenses,
             revenue |-> day_revenue,
             expenses |-> day_fuel_cost + day_other_expenses]]

FuelEfficiency(trs, S, start_date, days) ==
    [k \in 1..SeriesLength(days) |->
        LET day == start_date + DayOffset(days, k)
            day_trips == DayTrips(trs, S, day)
        IN  [date |-> day,
             efficiency |-> Quotient(SumField(trs, day_trips, "distance_km"),
                                     SumField(trs, day_trips, "fuel_consumed"))]]

\* every truck of the collection, whatever its status
AllTrucks(trks) == DOMAIN trks

\* truck_collection.find({'status': 'Active'}), as indices into the collection
ActiveTrucks(trks) == {t \in DOMAIN trks : trks[t].status = "Active"}

\* the trips of one truck: str(trip.get('truck_id')) == str(truck['_id'])
TruckTrips(trs, S, t) == {i \in S : Str(trs[i].truck_id) = Hex(t)}

\* one entry of truck_stats; the truck's position stands for its truck_number
TruckStat(trs, S, t) ==
    LET truck_trips == TruckTrips(trs, S, t)
        truck_profit == SumField(trs, truck_trips, "revenue")
                        - SumField(trs, truck_trips, "fuel_cost")
                        - SumField(trs, truck_trips, "other_expenses")
    IN  [truck |-> t,
         trips |-> Cardinality(truck_trips),
         revenue |-> SumField(trs, truck_trips, "revenue"),
         profit |-> truck_profit,
         distance |-> SumField(trs, truck_trips, "distance_km"),
         avg_profit_per_trip |-> Quotient(truck_profit, Cardinality(truck_trips))]

\* the place of truck t in sorted(truck_stats, key=profit, reverse=True): the
\* sort is stable, equal profits stay in store order
RankByProfit(trs, S, act, t) ==
    Cardinality({u \in act :
        \/ TruckStat(trs, S, u).profit > TruckStat(trs, S, t).profit
        \/ TruckStat(trs, S, u).profit = TruckStat(trs, S, t).profit /\ u < t}) + 1

HighPerforming(trs, S, trks) ==
    LET act == ActiveTrucks(trks)
        sorted == [k \in 1..Cardinality(act) |->
                     TruckStat(trs, S, CHOOSE t \in act : RankByProfit(trs, S, act, t) = k)]
    IN  Take(sorted, TopLimit)

FuelUsage(trs, S, trks) ==
    LET act == ActiveTrucks(trks)
        order == [k \in 1..Cardinality(act) |->
                    CHOOSE t \in act : Cardinality({u \in act : u < t}) + 1 = k]
    IN  [k \in 1..Cardinality(act) |->
            [truck |-> order[k],
             fuel_consumed |-> SumField(trs, TruckTrips(trs, S, order[k]), "fuel_consumed")]]

\* the body get_analytics answers with; args records the request and the instant
\* utcnow() returned
AnalyticsOf(trs, trks, now, days, truck_id, driver_id) ==
    LET end_date == now
        start_date == end_date - days
        completed_trips == CompletedTrips(trs,
                               TripFilter(trs, start_date, end_date, truck_id, driver_id))
        total_distance == SumField(trs, completed_trips, "distance_km")
        total_fuel_consumed == SumField(trs, completed_trips, "fuel_consumed")
    IN  [status |-> 200,
         args |-> [now |-> now, days |-> days, truck_id |-> truck_id,
                   driver_id |-> driver_id],
         total_trips |-> Cardinality(completed_trips),
         total_revenue |-> SumField(trs, completed_trips, "revenue"),
         total_distance |-> total_distance,
         avg_fuel_efficiency |-> Round2(Quotient(total_distance, total_fuel_consumed)),
         profit_trends |-> ProfitTrends(trs, completed_trips, start_date, days),
         fuel_usage |-> FuelUsage(trs, completed_trips, trks),
         fuel_efficiency |-> FuelEfficiency(trs, completed_trips, start_date, days),
         high_performing_trucks |-> HighPerforming(trs, completed_trips, trks)]

\* GET /dashboard/analytics?days=..&truck_id=..&driver_id=..: a days argument
\* that int() rejects ends the request with a 500
GetAnalytics(now, days, truck_id, driver_id) ==
    /\ now >= clock
    /\ analytics' = IF IntRaises(days) THEN [status |-> 500]
                    ELSE AnalyticsOf(trips, trucks, now, DaysOf(days), truck_id, driver_id)
    /\ last' = Reply("get_analytics", IF IntRaises(days) THEN 500 ELSE 200, 0)
    /\ clock' = now
    /\ reads' = <<>>
    /\ done' = {}
    /\ resp' = NoResp
    /\ UNCHANGED <<alerts, trucks, employees, trips, subtrips, payments, expenses,
                   inflight>>

(***************************************************************************)
(* Bounds and request bodies of the trip, sub-trip and payment             *)
(* specifications                                                          *)
(***************************************************************************)
MaxTrips == 2
MaxSubtrips == 2
MaxPayments == 2
MaxExpenses == 1

\* the instants of trip and sub-trip dates
Days == {0, 1}
DriverIds == {1, 2}
TripIds == 1..MaxTrips
TripStatuses == {"Planned", "Cancelled"}

\* a PUT body with no key at all
NoTripBody == [TripBody(Missing, Missing, Missing, Missing) EXCEPT !.truck_id = Missing]

(***************************************************************************)
(* Driver bookings: two drivers, trips with and without an end date,       *)
(* updates of one key                                                      *)
(***************************************************************************)
BookRequests ==
    {TripBody(Num(n), Num(d), Naive(s), e) :
        n \in TripIds, d \in DriverIds, s \in Days,
        e \in {Missing} \cup {Naive(x) : x \in Days}}

BookUpdates ==
    {[NoTripBody EXCEPT !.driver_id = Num(d)] : d \in DriverIds}
    \cup {[NoTripBody EXCEPT !.start_date = Naive(s)] : s \in Days}
    \cup {[NoTripBody EXCEPT !.end_date = Naive(s)] : s \in Days}
    \cup {[NoTripBody EXCEPT !.status = st] : st \in TripStatuses}

BookEmployee ==
    /\ Len(employees) < Cardinality(DriverIds)
    /\ CreateEmployee("Active", None)

BookEmployeeStatus ==
    \E e \in DriverIds, st \in EmployeeStatuses : UpdateEmployeeStatus(e, st)

BookCreateTrip ==
    /\ Len(trips) < MaxTrips
    /\ \E data \in BookRequests : CreateTrip(data)

BookUpdateTrip == \E t \in TripIds, data \in BookUpdates : UpdateTrip(t, data)

BookDeleteTrip == \E t \in TripIds : DeleteTrip(t)

NextTrips ==
    BookEmployee \/ BookEmployeeStatus \/ BookCreateTrip \/ BookUpdateTrip
    \/ BookDeleteTrip

SpecTrips == Init /\ [][NextTrips]_vars

(***************************************************************************)
(* Revenue and sub-trips: one driver, trip n on day n, the revenue key in  *)
(* create and update bodies, sub-trips created, updated key by key and     *)
(* deleted                                                                 *)
(***************************************************************************)
RevenueInputs == {Num(1), Bad}
SubtripCosts == {Num(1), Bad}

SubtripUpdates ==
    {SubtripBody(Naive(d), Missing, Missing) : d \in Days}
    \cup {SubtripBody(Missing, Naive(d), Missing) : d \in Days}
    \cup {SubtripBody(Naive(d), Naive(e), Missing) : d \in Days, e \in Days}
    \cup {SubtripBody(Missing, Missing, c) : c \in SubtripCosts \cup {Num(-1)}}

RevEmployee ==
    /\ employees = <<>>
    /\ CreateEmployee("Active", None)

RevCreateTrip ==
    /\ Len(trips) < MaxTrips
    /\ \E rev \in RevenueInputs \cup {Missing} :
           CreateTrip([TripBody(Num(Len(trips) + 1), Num(1), Naive(Len(trips)),
                                Naive(Len(trips))) EXCEPT !.revenue = rev])

RevUpdateTrip ==
    \E t \in TripIds, rev \in RevenueInputs :
        UpdateTrip(t, [NoTripBody EXCEPT !.revenue = rev])

RevDeleteTrip == \E t \in TripIds : DeleteTrip(t)

RevCreateSubtrip ==
    /\ Cardinality(subtrips) < MaxSubtrips
    /\ \E t \in TripIds, d \in Days, e \in Days, c \in SubtripCosts :
           CreateSubtrip(t, SubtripBody(Naive(d), Naive(e), c))

RevUpdateSubtrip ==
    \E t \in TripIds, sid \in 1..MaxSubtrips, data \in SubtripUpdates :
        UpdateSubtrip(t, sid, data)

RevDeleteSubtrip ==
    \E t \in TripIds, sid \in 1..MaxSubtrips : DeleteSubtrip(t, sid)

NextRevenue ==
    RevEmployee \/ RevCreateTrip \/ RevUpdateTrip \/ RevDeleteTrip
    \/ RevCreateSubtrip \/ RevUpdateSubtrip \/ RevDeleteSubtrip

SpecRevenue == Init /\ [][NextRevenue]_vars

(***************************************************************************)
(* Cost fields: one driver, one trip, create and update bodies that carry  *)
(* any one or two of the six cost keys                                     *)
(***************************************************************************)
CostInputs == {Num(1), Bad}
CostKeys == {"toll", "rto", "adblue", "driver_salary", "labour_charges", "extra_expense"}

\* body b with key f set to v
WithCost(b, f, v) ==
    CASE f = "toll" -> [b EXCEPT !.toll = v]
      [] f = "rto" -> [b EXCEPT !.rto = v]
      [] f = "adblue" -> [b EXCEPT !.adblue = v]
      [] f = "driver_salary" -> [b EXCEPT !.driver_salary = v]
      [] f = "labour_charges" -> [b EXCEPT !.labour_charges = v]
      [] f = "extra_expense" -> [b EXCEPT !.extra_expense = v]

CostBodies(b) ==
    {WithCost(WithCost(b, f, v), g, w) :
        f \in CostKeys, g \in CostKeys, v \in CostInputs, w \in CostInputs \cup {Num(2)}}

CostEmployee ==
    /\ employees = <<>>
    /\ CreateEmployee("Active", None)

CostCreateTrip ==
    /\ trips = <<>>
    /\ \E data \in CostBodies(TripBody(Num(1), Num(1), Naive(0), Naive(0))) :
           CreateTrip(data)

CostUpdateTrip == \E data \in CostBodies(NoTripBody) : UpdateTrip(1, data)

NextCosts == CostEmployee \/ CostCreateTrip \/ CostUpdateTrip

SpecCosts == Init /\ [][NextCosts]_vars

(***************************************************************************)
(* Client payments: two clients of one trip code, amounts of either sign   *)
(***************************************************************************)
ClientNames == {1, 2}
CostAmounts == {Num(0), Num(2)}
AdvanceAmounts == {Num(1), Num(2)}
BalanceAmounts == {Num(-2), Num(1), Bad}
PaymentStatuses == {"Pending", "RECEIVED"}

PaymentBody(client, cost, advance, balance, status) ==
    [trip_code |-> Num(1), client_name |-> client, cost |-> cost,
     advance_payment |-> advance, balance |-> balance, status |-> status]

PaymentUpdates ==
    {PaymentBody(Missing, Missing, a, b, st) :
        a \in AdvanceAmounts \cup {Missing}, b \in BalanceAmounts \cup {Missing},
        st \in PaymentStatuses \cup {Absent}}

PayCreate ==
    /\ Cardinality(payments) < MaxPayments
    /\ \E c \in ClientNames, cost \in CostAmounts, a \in AdvanceAmounts,
          b \in BalanceAmounts, st \in {"Pending"} :
           CreateClientPayment(PaymentBody(Num(c), cost, a, b, st))

PayUpdate ==
    \E pid \in 1..MaxPayments, data \in PaymentUpdates : UpdateClientPayment(pid, data)

PayDelete == \E pid \in 1..MaxPayments : DeleteClientPayment(pid)

NextPay == PayCreate \/ PayUpdate \/ PayDelete

SpecPay == Init /\ [][NextPay]_vars

(***************************************************************************)
(* Every handler next to the alerts: one truck whose insurance date raises *)
(* an alert, one employee, get_alerts with a standing clock, and one       *)
(* request of each kind to every other handler                             *)
(***************************************************************************)
ExpenseBody(number, amount, status) ==
    [expense_number |-> number, amount |-> amount, status |-> status]

FrameCreateTruck ==
    /\ trucks = <<>>
    /\ CreateTruck("Active", Naive(0), None, None)

FrameUpdateTruck == UpdateTruck(1, "status", "Active")

FrameDeleteTruck == DeleteTruck(1)

FrameCreateEmployee ==
    /\ employees = <<>>
    /\ CreateEmployee("Active", None)

FrameUpdateEmployee == UpdateEmployeeStatus(1, "Active")

FrameDeleteEmployee == DeleteEmployee(1)

FrameGetAlerts == GetAlerts([i \in 1..8 |-> clock], MaxAlerts)

FrameCreateTrip ==
    /\ trips = <<>>
    /\ CreateTrip(TripBody(Num(1), Num(1), Naive(0), Naive(0)))

FrameUpdateTrip == UpdateTrip(1, [NoTripBody EXCEPT !.status = "Completed"])

FrameDeleteTrip == DeleteTrip(1)

FrameCreateSubtrip ==
    /\ subtrips = {}
    /\ CreateSubtrip(1, SubtripBody(Naive(0), Naive(0), Num(1)))

FrameUpdateSubtrip == UpdateSubtrip(1, 1, SubtripBody(Missing, Missing, Num(2)))

FrameDeleteSubtrip == DeleteSubtrip(1, 1)

FrameCreatePayment ==
    /\ payments = {}
    /\ CreateClientPayment(PaymentBody(Num(1), Num(2), Num(1), Num(1), "Pending"))

FrameUpdatePayment ==
    UpdateClientPayment(1, PaymentBody(Missing, Missing, Missing, Missing, "Received"))

FrameDeletePayment == DeleteClientPayment(1)

FrameCreateExpense ==
    /\ Len(expenses) < MaxExpenses
    /\ CreateExpense(ExpenseBody(Num(1), Num(1), Absent))

FrameUpdateExpense == UpdateExpense(1, ExpenseBody(Missing, Missing, "Approved"))

FrameDeleteExpense == DeleteExpense(1)

FrameAnalytics == GetAnalytics(clock, Missing, NoFilter, NoFilter)

FrameReport == ReadOnly("get_report")

NextFrame ==
    \/ FrameCreateTruck \/ FrameUpdateTruck \/ FrameDeleteTruck
    \/ FrameCreateEmployee \/ FrameUpdateEmployee \/ FrameDeleteEmployee
    \/ FrameGetAlerts
    \/ FrameCreateTrip \/ FrameUpdateTrip \/ FrameDeleteTrip
    \/ FrameCreateSubtrip \/ FrameUpdateSubtrip \/ FrameDeleteSubtrip
    \/ FrameCreatePayment \/ FrameUpdatePayment \/ FrameDeletePayment
    \/ FrameCreateExpense \/ FrameUpdateExpense \/ FrameDeleteExpense
    \/ FrameAnalytics \/ FrameReport

SpecFrame == Init /\ [][NextFrame]_vars

(***************************************************************************)
(* The analytics specification: one truck, a driver for every trip,         *)
(* Completed and Planned trips on two days for a truck named by its _id or  *)
(* by a text, and queries over windows of one and two days, unfiltered or   *)
(* filtered by truck or driver.                                             *)
(***************************************************************************)
AnalyticsProfiles ==
    {[status |-> "Completed", revenue |-> Num(3), fuel_consumed |-> Num(2)],
     [status |-> "Completed", revenue |-> Num(0), fuel_consumed |-> Num(0)],
     [status |-> "Planned", revenue |-> Num(3), fuel_consumed |-> Num(2)]}

AnalyticsBody(number, truck_id, day, profile) ==
    [TripBody(Num(number), Num(number), Naive(day), Missing)
        EXCEPT !.truck_id = truck_id, !.status = profile.status,
               !.revenue = profile.revenue, !.fuel_cost = Num(1),
               !.distance_km = Num(4), !.fuel_consumed = profile.fuel_consumed]

AnalyticsQueries ==
    {[days |-> n, truck_id |-> t, driver_id |-> NoFilter] :
        n \in {Num(1), Num(2)}, t \in {NoFilter, Hex(1), Text(1)}}
    \cup {[days |-> n, truck_id |-> NoFilter, driver_id |-> Hex(1)] :
             n \in {Num(1), Num(2)}}
    \cup {[days |-> Bad, truck_id |-> NoFilter, driver_id |-> NoFilter]}

AnEmployee ==
    /\ Len(employees) < MaxTrips
    /\ CreateEmployee("Active", None)

AnTruck ==
    /\ trucks = <<>>
    /\ CreateTruck("Active", None, None, None)

AnCreateTrip ==
    /\ Len(trips) < MaxTrips
    /\ \E t \in {Hex(1), Text(1)}, d \in Days, p \in AnalyticsProfiles :
           CreateTrip(AnalyticsBody(Len(trips) + 1, t, d, p))

AnQuery ==
    \E now \in {clock, clock + 1}, q \in AnalyticsQueries :
        /\ now <= MaxClock + 1
        /\ GetAnalytics(now, q.days, q.truck_id, q.driver_id)

NextAnalytics == AnEmployee \/ AnTruck \/ AnCreateTrip \/ AnQuery

SpecAnalytics == Init /\ [][NextAnalytics]_vars

(***************************************************************************)
(* The ranking specification: up to one truck more than the ranking keeps,  *)
(* the first of which can be retired, and Completed trips with a profit of  *)
(* 2 or of -1 for the first and the last truck.                             *)
(***************************************************************************)
TopTruck ==
    /\ Len(trucks) < TopLimit + 1
    /\ CreateTruck("Active", None, None, None)

TopRetire == UpdateTruck(1, "status", "Inactive")

TopEmployee ==
    /\ Len(employees) < MaxTrips
    /\ CreateEmployee("Active", None)

TopCreateTrip ==
    /\ Len(trips) < MaxTrips
    /\ \E t \in {Hex(1), Hex(TopLimit + 1)}, rev \in {Num(0), Num(3)} :
           CreateTrip(AnalyticsBody(Len(trips) + 1, t, 0,
               [status |-> "Completed", revenue |-> rev, fuel_consumed |-> Num(2)]))

TopQuery == GetAnalytics(clock, Num(1), NoFilter, NoFilter)

NextTop == TopTruck \/ TopRetire \/ TopEmployee \/ TopCreateTrip \/ TopQuery

SpecTop == Init /\ [][NextTop]_vars

(***************************************************************************)
(* The date specification: one truck whose insurance_expiry moves between   *)
(* two instants that have passed and two that fall within the horizon,      *)
(* while the clock stands still.                                            *)
(***************************************************************************)
PastDates == {-2, -1}
SoonDates == {1, 2}

DatesCreateTruck ==
    /\ trucks = <<>>
    /\ \E d \in PastDates \cup SoonDates : CreateTruck("Active", Naive(d), None, None)

DatesUpdateTruck ==
    \E d \in PastDates \cup SoonDates : UpdateTruck(1, "insurance", Naive(d))

DatesUpdateStatus == \E st \in {"Active", "Inactive"} : UpdateTruck(1, "status", st)

DatesGetAlerts == GetAlerts([i \in 1..8 |-> clock], MaxAlerts + 1)

NextDates ==
    DatesCreateTruck \/ DatesUpdateTruck \/ DatesUpdateStatus \/ DatesGetAlerts

SpecDates == Init /\ [][NextDates]_vars

(***************************************************************************)
(* Requests served concurrently. A request in flight holds its local        *)
(* variables in inflight[p]; each step is one call on the store, and the    *)
(* steps of the requests interleave. A request that has answered rests at   *)
(* pc "done" until the slot takes the next one.                             *)
(***************************************************************************)
\* the requests between two of their steps
Busy == {p \in Requests : inflight[p].pc \notin {"idle", "done"}}

\* a step of request p that leaves it with the local variables loc
RaceFrame(p, loc) ==
    /\ inflight' = [inflight EXCEPT ![p] = loc]
    /\ analytics' = NoAnalytics
    /\ reads' = <<>>
    /\ done' = {}
    /\ UNCHANGED clock

(***************************************************************************)
(* get_alerts step by step, for a store with one Active truck and no        *)
(* employee: the two removal passes and the license pass find nothing, the  *)
(* fc and permit passes find no date and no alert, and the insurance pass   *)
(* runs its find_one, update_one, update_many and insert_one calls.         *)
(***************************************************************************)
\* the branch of the loop body the parsed date selects
BranchOf(val, soon, now) ==
    IF ParseExpiry(val).k = "none" THEN "none"
    ELSE IF IsExpired(val.d, now) THEN "expired"
    ELSE IF IsSoon(val.d, soon) THEN "soon"
    ELSE "far"

\* an insert that looks the collection up again in the same call
InsertIfNoneActive(al, found, doc) ==
    IF FindOne(al, doc.kind, doc.owner, doc.type) = 0 THEN Append(al, doc) ELSE al

\* if not existing: insert_one(doc), with the result of the find_one made earlier
InsertAfterFind(al, found, doc) == InsertUnlessFound(al, found, doc)

AlertsFrame ==
    /\ last' = NoLast
    /\ UNCHANGED <<trucks, employees, trips, subtrips, payments, expenses>>

\* the request starts: soon and now are read, Truck.find_all({'status': 'Active'})
\* returns the truck as it is stored now
AlertsBegin(p) ==
    /\ inflight[p].pc \in {"idle", "done"}
    /\ trucks # <<>>
    /\ Len(alerts) + Cardinality(Busy) < MaxAlerts
    /\ RaceFrame(p, [pc |-> "find", val |-> trucks[1].insurance,
                     branch |-> BranchOf(trucks[1].insurance, clock + Horizon, clock),
                     existing |-> 0, expired_existing |-> 0])
    /\ resp' = NoResp
    /\ UNCHANGED alerts
    /\ AlertsFrame

\* existing = alert_collection.find_one({truck, 'insurance_expiry', 'Active'})
AlertsFind(p) ==
    LET loc == inflight[p]
    IN  /\ loc.pc = "find"
        /\ RaceFrame(p, [loc EXCEPT
               !.existing = FindOne(alerts, "truck", 1, ExpiryType("insurance")),
               !.pc = IF loc.branch = "soon" THEN "update_many" ELSE "update_one"])
        /\ resp' = NoResp
        /\ UNCHANGED alerts
        /\ AlertsFrame

\* if existing: update_one({'_id': existing['_id']}, Inactive), in the branches
\* without a date, expired and far
AlertsUpdateOne(p) ==
    LET loc == inflight[p]
    IN  /\ loc.pc = "update_one"
        /\ alerts' = DeactivateOne(alerts, loc.existing)
        /\ RaceFrame(p, [loc EXCEPT
               !.pc = CASE loc.branch = "none" -> "respond"
                        [] loc.branch = "expired" -> "find_expired"
                        [] loc.branch = "far" -> "update_many"])
        /\ resp' = NoResp
        /\ AlertsFrame

\* expired_existing = alert_collection.find_one({truck, 'insurance_expired', 'Active'})
AlertsFindExpired(p) ==
    LET loc == inflight[p]
    IN  /\ loc.pc = "find_expired"
        /\ RaceFrame(p, [loc EXCEPT
               !.expired_existing = FindOne(alerts, "truck", 1, ExpiredType("insurance")),
               !.pc = "insert"])
        /\ resp' = NoResp
        /\ UNCHANGED alerts
        /\ AlertsFrame

\* update_many({truck, 'insurance_expired', 'Active'}, Inactive), in the branches
\* soon and far
AlertsUpdateMany(p) ==
    LET loc == inflight[p]
    IN  /\ loc.pc = "update_many"
        /\ alerts' = DeactivateMany(alerts, "truck", 1, ExpiredType("insurance"))
        /\ RaceFrame(p, [loc EXCEPT
               !.pc = IF loc.branch = "soon" THEN "insert" ELSE "respond"])
        /\ resp' = NoResp
        /\ AlertsFrame

\* what the insert of request p was decided on, and the document it inserts
FoundOf(loc) == IF loc.branch = "expired" THEN loc.expired_existing ELSE loc.existing

DocOf(loc) ==
    IF loc.branch = "expired"
    THEN NewAlert("truck", 1, ExpiredType("insurance"), "danger", loc.val.d)
    ELSE NewAlert("truck", 1, ExpiryType("insurance"), "warning", loc.val.d)

\* if not expired_existing: insert_one(..) / if not existing: insert_one(..)
AlertsInsert(p) ==
    LET loc == inflight[p]
    IN  /\ loc.pc = "insert"
        /\ alerts' = InsertAfterFind(alerts, FoundOf(loc), DocOf(loc))
        /\ RaceFrame(p, [loc EXCEPT !.pc = "respond"])
        /\ resp' = NoResp
        /\ AlertsFrame

\* the read path and the answer
AlertsRespond(p) ==
    LET loc == inflight[p]
    IN  /\ loc.pc = "respond"
        /\ RaceFrame(p, [loc EXCEPT !.pc = "done"])
        /\ resp' = [status |-> 200, alerts |-> ReadPath(alerts, trucks, employees)]
        /\ UNCHANGED alerts
        /\ AlertsFrame

RaceDates == {None, Naive(-1), Naive(1), Naive(Horizon + 1)}

RaceCreateTruck ==
    /\ trucks = <<>>
    /\ \E d \in RaceDates : CreateTruck("Active", d, None, None)

RaceUpdateTruck == \E d \in RaceDates : UpdateTruck(1, "insurance", d)

\* a request served alone
RaceGetAlerts ==
    /\ Busy = {}
    /\ GetAlerts([i \in 1..8 |-> clock], MaxAlerts)

NextRaceAlerts ==
    \/ RaceCreateTruck \/ RaceUpdateTruck \/ RaceGetAlerts
    \/ \E p \in Requests :
           \/ AlertsBegin(p) \/ AlertsFind(p) \/ AlertsUpdateOne(p)
           \/ AlertsFindExpired(p) \/ AlertsUpdateMany(p) \/ AlertsInsert(p)
           \/ AlertsRespond(p)

SpecRaceAlerts == Init /\ [][NextRaceAlerts]_vars

(***************************************************************************)
(* create_trip in two steps: the checks, which only read, and the insert.   *)
(***************************************************************************)
\* an insert that repeats the conflict query in the same call
StoreUnlessConflict(trs, doc) ==
    IF DriverConflict(trs, 0, doc.driver_id, doc.start_date, doc.end_date)
    THEN trs ELSE Append(trs, doc)

\* Trip.insert_one(trip_doc)
StoreTrip(trs, doc) == Append(trs, doc)

TripRaceFrame ==
    /\ resp' = NoResp
    /\ UNCHANGED <<alerts, trucks, employees, payments, expenses>>

\* the checks of create_trip on the store as it is now; seen records how many
\* trips were stored when they ran
TripCheck(p, data) ==
    LET status == CreateTripStatus(trips, employees, data)
    IN  /\ inflight[p].pc \in {"idle", "done"}
        /\ Len(trips) + Cardinality(Busy) < MaxTrips
        /\ RaceFrame(p, [pc |-> IF status = 201 THEN "insert" ELSE "done",
                         data |-> data, status |-> status, seen |-> Len(trips)])
        /\ last' = IF status = 201 THEN NoLast ELSE Reply("create_trip", status, 0)
        /\ UNCHANGED <<trips, subtrips>>
        /\ TripRaceFrame

\* the insert and the answer
TripStore(p) ==
    LET loc == inflight[p]
    IN  /\ loc.pc = "insert"
        /\ trips' = StoreTrip(trips, CreateTripDoc(loc.data))
        /\ RaceFrame(p, [loc EXCEPT !.pc = "done"])
        /\ last' = Reply("create_trip", 201, Len(trips) + 1)
        /\ UNCHANGED subtrips
        /\ TripRaceFrame

RaceTripBodies ==
    {TripBody(Num(n), Num(1), Naive(s), Naive(e)) : n \in TripIds, s \in Days, e \in Days}

RaceTripEmployee ==
    /\ employees = <<>>
    /\ CreateEmployee("Active", None)

RaceTripCancel == \E t \in TripIds : DeleteTrip(t)

NextRaceTrips ==
    \/ RaceTripEmployee \/ RaceTripCancel
    \/ \E p \in Requests :
           \/ \E data \in RaceTripBodies : TripCheck(p, data)
           \/ TripStore(p)

SpecRaceTrips == Init /\ [][NextRaceTrips]_vars

(***************************************************************************)
(* The sub-trip handlers in three steps: the checks and the write to the    *)
(* sub-trips collection, then the two calls of update_trip_revenue, the     *)
(* find_all with its sum and the update_one of the trip.                    *)
(***************************************************************************)
\* the first step of a request on trip_id that leaves the sub-trips subs
SubWritten(p, op, trip_id, id, subs) ==
    /\ subtrips' = subs
    /\ RaceFrame(p, [pc |-> "sum", op |-> op, trip_id |-> trip_id, id |-> id,
                     status |-> IF op = "create_subtrip" THEN 201 ELSE 200,
                     total_revenue |-> 0])
    /\ last' = NoLast
    /\ UNCHANGED trips
    /\ TripRaceFrame

\* create_subtrip up to SubTrip.insert_one, for a body that passes the checks
SubCreate(p, trip_id, data) ==
    LET id == NewId(subtrips)
    IN  /\ inflight[p].pc \in {"idle", "done"}
        /\ Cardinality(subtrips) + Cardinality(Busy) < MaxSubtrips
        /\ trip_id \in DOMAIN trips
        /\ FromIso(data.date).d <= FromIso(data.end_date).d
        /\ SubWritten(p, "create_subtrip", trip_id, id,
               subtrips \cup {[id |-> id, trip_id |-> trip_id,
                               date |-> FromIso(data.date),
                               end_date |-> FromIso(data.end_date),
                               cost |-> parse_float(data.cost)]})

\* update_subtrip up to SubTrip.update_one, for a body with a cost and no date
SubUpdate(p, trip_id, sid, data) ==
    LET hit == FindSubtrip(subtrips, trip_id, sid)
        subtrip == CHOOSE x \in hit : TRUE
    IN  /\ inflight[p].pc \in {"idle", "done"}
        /\ hit # {}
        /\ parse_float(data.cost) >= 0
        /\ SubWritten(p, "update_subtrip", trip_id, sid,
               (subtrips \ hit) \cup {[subtrip EXCEPT !.cost = parse_float(data.cost)]})

\* delete_subtrip up to SubTrip.delete_one
SubDelete(p, trip_id, sid) ==
    LET hit == FindSubtrip(subtrips, trip_id, sid)
    IN  /\ inflight[p].pc \in {"idle", "done"}
        /\ hit # {}
        /\ SubWritten(p, "delete_subtrip", trip_id, sid, subtrips \ hit)

\* subtrips = SubTrip.find_all({'trip_id': trip_id}); total_revenue = sum(..)
SubSum(p) ==
    LET loc == inflight[p]
    IN  /\ loc.pc = "sum"
        /\ RaceFrame(p, [loc EXCEPT
               !.pc = "set",
               !.total_revenue = SumOfSubtripCosts(subtrips, loc.trip_id)])
        /\ last' = NoLast
        /\ UNCHANGED <<trips, subtrips>>
        /\ TripRaceFrame

\* Trip.update_one(trip_id, {'revenue': total_revenue}), and the answer
SubSet(p) ==
    LET loc == inflight[p]
    IN  /\ loc.pc = "set"
        /\ trips' = IF loc.trip_id \in DOMAIN trips
                    THEN [trips EXCEPT ![loc.trip_id].revenue = loc.total_revenue]
                    ELSE trips
        /\ RaceFrame(p, [loc EXCEPT !.pc = "done"])
        /\ last' = Reply(loc.op, loc.status, loc.id)
        /\ UNCHANGED subtrips
        /\ TripRaceFrame

RaceSubEmployee ==
    /\ employees = <<>>
    /\ CreateEmployee("Active", None)

RaceSubTrip ==
    /\ trips = <<>>
    /\ CreateTrip(TripBody(Num(1), Num(1), Naive(0), Naive(0)))

RaceCosts == {Num(1), Num(2)}

NextRaceRevenue ==
    \/ RaceSubEmployee \/ RaceSubTrip
    \/ \E p \in Requests :
           \/ \E c \in RaceCosts : SubCreate(p, 1, SubtripBody(Naive(0), Naive(0), c))
           \/ \E s \in 1..MaxSubtrips, c \in RaceCosts :
                  SubUpdate(p, 1, s, SubtripBody(Missing, Missing, c))
           \/ \E s \in 1..MaxSubtrips : SubDelete(p, 1, s)
           \/ SubSum(p)
           \/ SubSet(p)

SpecRaceRevenue == Init /\ [][NextRaceRevenue]_vars

(***************************************************************************)
(* Vocabulary of the properties                                            *)
(***************************************************************************)
Kinds == {"truck", "employee"}

AttrsOf(kind) == IF kind = "employee" THEN {"license"} ELSE {"insurance", "fc", "permit"}

EntsOf(kind) == IF kind = "employee" THEN employees ELSE trucks

\* the positions of a pass's two clock reads in the request's eight
SoonRead(attr) ==
    CASE attr = "license" -> 1 [] attr = "insurance" -> 3
      [] attr = "fc" -> 5 [] attr = "permit" -> 7

NowRead(attr) == SoonRead(attr) + 1

ActiveOf(al, kind, owner, type) == {i \in DOMAIN al : Matches(al[i], kind, owner, type)}

\* the (kind, owner, type) triples that have an Active alert
ActivePairs(al) ==
    {<<al[i].kind, al[i].owner, al[i].type>> : i \in {j \in DOMAIN al : al[j].status = "Active"}}

\* get_alerts has just answered / has just answered without an exception
Answered == resp.status # 0
Completed == resp.status = 200

\* the Active entities of a kind and the attributes of theirs that hold value kind k
ActiveWith(kind, attr, ks) ==
    {e \in DOMAIN EntsOf(kind) :
        /\ EntsOf(kind)[e].status = "Active"
        /\ FieldOf(EntsOf(kind)[e], attr).k \in ks}

(***************************************************************************)
(* C1. At most one Active alert per owner and alert type: in every state   *)
(* that sequentially executed requests reach from the empty store, no      *)
(* (truck or employee, alert type) pair has two alert documents with       *)
(* status Active.                                                          *)
(***************************************************************************)
C1_AtMostOneActive ==
    \A i, j \in DOMAIN alerts :
        (/\ alerts[i].status = "Active" /\ alerts[j].status = "Active"
         /\ alerts[i].kind = alerts[j].kind /\ alerts[i].owner = alerts[j].owner
         /\ alerts[i].type = alerts[j].type) => i = j

\* an alert was created again for a pair that already had a deactivated one
C1_Witness ==
    \E i, j \in DOMAIN alerts :
        /\ alerts[i].status = "Inactive" /\ alerts[j].status = "Active"
        /\ alerts[i].kind = alerts[j].kind /\ alerts[i].owner = alerts[j].owner
        /\ alerts[i].type = alerts[j].type

(***************************************************************************)
(* C2. Idempotence: right after get_alerts has reconciled the store, a     *)
(* second run of the six passes with the same clock values and the same    *)
(* trucks and employees inserts no alert and changes no alert's status:    *)
(* the collection, and so the Active set, is what the first run left.      *)
(***************************************************************************)
C2_Idempotent ==
    Answered => Reconcile(alerts, trucks, employees, reads).alerts = alerts

\* the first run left an Active and an Inactive alert for the second to revisit
C2_Witness ==
    /\ Completed
    /\ \E i, j \in DOMAIN alerts :
           alerts[i].status = "Active" /\ alerts[j].status = "Inactive"

(***************************************************************************)
(* C3. The Active set is a function of the entities alone: the store as    *)
(* get_alerts left it and a store with the same trucks and employees but   *)
(* an empty prior alerts collection, reconciled at the same clock values,  *)
(* have the same (owner, alert type) pairs with an Active alert.           *)
(***************************************************************************)
C3_PureFunction ==
    Completed =>
        ActivePairs(alerts) = ActivePairs(Reconcile(<<>>, trucks, employees, reads).alerts)

(***************************************************************************)
(* C4. Classification outcome: after a pass that ran to completion, every  *)
(* Active entity with a date d for attribute A has, with now the pass's    *)
(* clock value: exactly one Active '<A>_expired' alert of severity danger  *)
(* and no Active '<A>_expiry' alert if d < now; exactly one Active         *)
(* '<A>_expiry' alert of severity warning and no Active '<A>_expired'      *)
(* alert if now <= d <= now + 30 days; no Active alert of either type if   *)
(* d > now + 30 days.                                                      *)
(***************************************************************************)
OutcomeFor(kind, attr, e, d, now) ==
    LET soonAlerts == ActiveOf(alerts, kind, e, ExpiryType(attr))
        expiredAlerts == ActiveOf(alerts, kind, e, ExpiredType(attr))
    IN  IF d < now
        THEN /\ Cardinality(expiredAlerts) = 1
             /\ \A i \in expiredAlerts : alerts[i].severity = "danger"
             /\ soonAlerts = {}
        ELSE IF d <= now + Horizon
        THEN /\ Cardinality(soonAlerts) = 1
             /\ \A i \in soonAlerts : alerts[i].severity = "warning"
             /\ expiredAlerts = {}
        ELSE soonAlerts = {} /\ expiredAlerts = {}

C4_Classification ==
    Completed =>
        \A kind \in Kinds : \A attr \in AttrsOf(kind) :
            \A e \in ActiveWith(kind, attr, {"naive"}) :
                OutcomeFor(kind, attr, e, FieldOf(EntsOf(kind)[e], attr).d,
                           reads[NowRead(attr)])

(***************************************************************************)
(* C5. No expiry configured: when get_alerts reconciles a store in which   *)
(* the Active entity E has an absent, empty or unparsable date for         *)
(* attribute A, then afterwards E has no Active '<A>_expiry' alert, no     *)
(* alert was inserted for (E, A), and every '<A>_expired' alert of E is    *)
(* as it was.                                                              *)
(***************************************************************************)
IsFor(a, kind, e, attr) ==
    a.kind = kind /\ a.owner = e /\ a.type \in {ExpiryType(attr), ExpiredType(attr)}

C5_NoExpiryStep ==
    (resp'.status # 0) =>
        \A kind \in Kinds : \A attr \in AttrsOf(kind) :
            \A e \in ActiveWith(kind, attr, {"none", "bad"}) :
                /\ ActiveOf(alerts', kind, e, ExpiryType(attr)) = {}
                /\ \A i \in DOMAIN alerts' :
                       IsFor(alerts'[i], kind, e, attr) => i \in DOMAIN alerts
                /\ \A i \in DOMAIN alerts :
                       (alerts[i].kind = kind /\ alerts[i].owner = e
                        /\ alerts[i].type = ExpiredType(attr)) => alerts'[i] = alerts[i]

C5_NoExpiry == [][C5_NoExpiryStep]_vars

(***************************************************************************)
(* C6. No expired alert without a date: after a pass that ran to           *)
(* completion, an Active entity whose date for attribute A is not          *)
(* configured has no Active '<A>_expired' alert.                           *)
(***************************************************************************)
C6_NoExpiredWithoutDate ==
    Completed =>
        \A kind \in Kinds : \A attr \in AttrsOf(kind) :
            \A e \in ActiveWith(kind, attr, {"none", "bad"}) :
                ActiveOf(alerts, kind, e, ExpiredType(attr)) = {}

(***************************************************************************)
(* C7. Lower boundary. As claimed: after a pass that ran to completion, an *)
(* Active entity whose date equals the pass's now has an Active            *)
(* '<A>_expired' alert and no Active '<A>_expiry' alert.                   *)
(***************************************************************************)
AtNow(kind, attr) ==
    {e \in ActiveWith(kind, attr, {"naive"}) :
        FieldOf(EntsOf(kind)[e], attr).d = reads[NowRead(attr)]}

C7_ExpiredAtNow ==
    Completed =>
        \A kind \in Kinds : \A attr \in AttrsOf(kind) : \A e \in AtNow(kind, attr) :
            /\ ActiveOf(alerts, kind, e, ExpiredType(attr)) # {}
            /\ ActiveOf(alerts, kind, e, ExpiryType(attr)) = {}

(***************************************************************************)
(* C7, amended. An Active entity whose date equals the pass's now is       *)
(* classified as expiring soon, not as expired: once the pass has          *)
(* processed it, it has exactly one Active '<A>_expiry' alert, of severity *)
(* warning, and no Active '<A>_expired' alert.                             *)
(***************************************************************************)
C7_SoonAtNow ==
    Answered =>
        \A kind \in Kinds : \A attr \in AttrsOf(kind) : \A e \in AtNow(kind, attr) :
            <<attr, e>> \in done =>
                /\ Cardinality(ActiveOf(alerts, kind, e, ExpiryType(attr))) = 1
                /\ \A i \in ActiveOf(alerts, kind, e, ExpiryType(attr)) :
                       alerts[i].severity = "warning"
                /\ ActiveOf(alerts, kind, e, ExpiredType(attr)) = {}

\* a pass processed an entity whose date is its now, replacing an expired alert
C7_Witness ==
    /\ Answered
    /\ \E kind \in Kinds : \E attr \in AttrsOf(kind) : \E e \in AtNow(kind, attr) :
           /\ <<attr, e>> \in done
           /\ ActiveOf(alerts, kind, e, ExpiryType(attr)) # {}

(***************************************************************************)
(* C8. Upper boundary: after a pass that ran to completion, an Active      *)
(* entity whose date is exactly now + 30 days, now being the clock value   *)
(* the pass compares with for expired, has an Active '<A>_expiry' alert of *)
(* severity warning.                                                       *)
(***************************************************************************)
C8_SoonAtHorizon ==
    Completed =>
        \A kind \in Kinds : \A attr \in AttrsOf(kind) :
            \A e \in ActiveWith(kind, attr, {"naive"}) :
                FieldOf(EntsOf(kind)[e], attr).d = reads[NowRead(attr)] + Horizon =>
                    \E i \in ActiveOf(alerts, kind, e, ExpiryType(attr)) :
                        alerts[i].severity = "warning"

(***************************************************************************)
(* C9. Alerts never reference non-Active entities: after get_alerts has    *)
(* run to completion, no Active alert belongs to a truck or employee whose *)
(* status is anything other than Active.                                   *)
(***************************************************************************)
C9_NoAlertOfNonActive ==
    Completed =>
        \A i \in DOMAIN alerts :
            alerts[i].status = "Active" => OwnerIsActive(alerts[i], trucks, employees)

(***************************************************************************)
(* C10. Read path: a get_alerts response that is not an error holds the    *)
(* first 10 (or all, if fewer) of the Active alerts of Active owners, in   *)
(* ascending alert_date order: no alert twice, none Inactive, none of a    *)
(* non-Active owner, and none left out that is dated before one returned.  *)
(***************************************************************************)
Eligible ==
    {i \in DOMAIN alerts :
        alerts[i].status = "Active" /\ OwnerIsActive(alerts[i], trucks, employees)}

C10_ReadPath ==
    Completed =>
        LET out == resp.alerts
            got == {out[k] : k \in DOMAIN out}
        IN  /\ got \subseteq Eligible
            /\ Cardinality(got) = Len(out)
            /\ Len(out) = IF Cardinality(Eligible) < ResponseLimit
                          THEN Cardinality(Eligible) ELSE ResponseLimit
            /\ \A k \in 1..(Len(out) - 1) :
                   alerts[out[k]].alert_date <= alerts[out[k + 1]].alert_date
            /\ \A i \in got : \A j \in Eligible \ got :
                   alerts[i].alert_date <= alerts[j].alert_date

(***************************************************************************)
(* Vocabulary of the trip, sub-trip and payment properties                 *)
(***************************************************************************)
\* the sum of `cost` over the sub-trips of subs whose trip_id is t
CostsOf(subs, t) == SumCost({x \in subs : x.trip_id = t})

SubtripOps == {"create_subtrip", "update_subtrip", "delete_subtrip"}

Succeeded(reply) == reply.status \in {200, 201}

\* the trips addressed by the sub-trip request that was just answered
TripsOfStep == {x.trip_id : x \in {y \in subtrips \cup subtrips' : y.id = last'.id}}

\* C11: alert lifecycle ownership. A step of any handler other than get_alerts
\* (truck, employee, trip, sub-trip, client-payment, expense, analytics, report)
\* leaves the alerts collection as it was: no insert, no update, no delete.
C11_AlertsOwnedStep == resp'.status = 0 => alerts' = alerts

C11_AlertsOwned == [][C11_AlertsOwnedStep]_vars

\* an Active alert is stored and a client payment has just been set to Received
C11_Witness ==
    /\ \E i \in DOMAIN alerts : alerts[i].status = "Active"
    /\ last.op = "update_client_payment"
    /\ last.status = 200

\* C12: revenue derivation after a sub-trip mutation. After every successful
\* create_subtrip, update_subtrip or delete_subtrip on trip T, T.revenue is the
\* sum of `cost` over the sub-trips whose trip_id is T (0 when none remain),
\* whatever T.revenue was before.
C12_RevenueStep ==
    (last'.op \in SubtripOps /\ Succeeded(last')) =>
        \A t \in TripsOfStep : trips'[t].revenue = CostsOf(subtrips', t)

C12_RevenueDerived == [][C12_RevenueStep]_vars

\* a sub-trip was deleted from a trip whose revenue was not the sum of its
\* sub-trips' costs, and another sub-trip of the trip remains
C12_Witness ==
    /\ last.op = "delete_subtrip"
    /\ last.status = 200
    /\ last.stale
    /\ \E x \in subtrips : x.cost > 0 /\ trips[x.trip_id].revenue = CostsOf(subtrips, x.trip_id)

\* C13: revenue invariant. In every state reached by trip and sub-trip
\* operations each stored trip's revenue is the sum of `cost` over the sub-trips
\* that reference it.
C13_RevenueInvariant ==
    \A t \in DOMAIN trips : trips[t].revenue = CostsOf(subtrips, t)

\* a trip's interval: [start_date, end_date], open-ended from start_date when the
\* trip has no end_date; a trip whose end_date is before its start_date has none
HasInterval(tr) == tr.end_date.k = "none" \/ tr.start_date.d <= tr.end_date.d

StartsBeforeEndOf(a, b) == b.end_date.k = "none" \/ a.start_date.d <= b.end_date.d

Overlapping(a, b) ==
    /\ HasInterval(a)
    /\ HasInterval(b)
    /\ StartsBeforeEndOf(a, b)
    /\ StartsBeforeEndOf(b, a)

\* C14: driver double-booking invariant. In every state reached by create_trip,
\* update_trip and delete_trip no two distinct trips of the same driver, both
\* with a status other than 'Cancelled', have overlapping intervals; a trip
\* without end_date is open-ended from its start_date.
C14_NoDoubleBooking ==
    \A i \in DOMAIN trips, j \in DOMAIN trips :
        (/\ i # j
         /\ trips[i].driver_id = trips[j].driver_id
         /\ trips[i].status # "Cancelled"
         /\ trips[j].status # "Cancelled") => ~Overlapping(trips[i], trips[j])

\* the stored trips that block [start, end] for the driver: same driver, not
\* Cancelled, start_date <= end_date, interval overlapping
Blockers(driver_id, start, end) ==
    {i \in DOMAIN trips :
        /\ trips[i].driver_id = driver_id
        /\ trips[i].status # "Cancelled"
        /\ trips[i].end_date.k = "naive"
        /\ trips[i].start_date.d <= trips[i].end_date.d
        /\ trips[i].start_date.d <= end
        /\ start <= trips[i].end_date.d}

\* C15: double-booking rejection is exact. A create_trip request with a fresh
\* trip_number, an Active driver and start_date <= end_date is answered 400 and
\* stores nothing exactly when a stored trip of the driver, not Cancelled and
\* with start_date <= end_date, overlaps [start_date, end_date]; otherwise it
\* is answered 201 and the trip is stored.
C15_RejectionExactStep ==
    \A data \in BookRequests :
        (/\ \A i \in DOMAIN trips : trips[i].trip_number # data.trip_number.d
         /\ DriverOk(employees, data.driver_id.d)
         /\ data.end_date # Missing
         /\ data.start_date.d <= data.end_date.d
         /\ CreateTrip(data))
        => IF Blockers(data.driver_id.d, data.start_date.d, data.end_date.d) # {}
           THEN last'.status = 400 /\ trips' = trips
           ELSE /\ last'.status = 201
                /\ Len(trips') = Len(trips) + 1
                /\ trips'[Len(trips')].trip_number = data.trip_number.d

C15_RejectionExact == [][C15_RejectionExactStep]_vars

\* the stored payment with _id pid
PaymentOf(pays, pid) == CHOOSE x \in pays : x.id = pid

NonNegative(n) == IF n < 0 THEN 0 ELSE n

\* the request's value of a numeric key when supplied, the stored one when not
Effective(data_val, stored) == IF data_val = Missing THEN stored ELSE parse_float(data_val)

\* C16: client-payment balance rule. After update_client_payment with status
\* 'Received' (any letter case) the stored balance is 0 when advance_payment +
\* balance >= cost and max(0, cost - advance_payment) otherwise (cost as stored,
\* advance_payment and balance from the request when supplied, else as stored);
\* the stored balance of a Received payment is never negative.
C16_BalanceRuleStep ==
    \A pid \in 1..MaxPayments, data \in PaymentUpdates :
        (/\ \E x \in payments : x.id = pid
         /\ data.status # Absent
         /\ Lower(data.status) = "received"
         /\ UpdateClientPayment(pid, data))
        => LET old == PaymentOf(payments, pid)
               a == Effective(data.advance_payment, old.advance_payment)
               b == Effective(data.balance, old.balance)
               new == PaymentOf(payments', pid)
           IN  /\ new.balance = IF a + b >= old.cost THEN 0 ELSE NonNegative(old.cost - a)
               /\ new.balance >= 0

C16_BalanceRule == [][C16_BalanceRuleStep]_vars

\* C17: Received without a supplied balance. For a stored payment with cost c and
\* advance_payment a, whatever its balance, a PUT that sets the status to Received
\* and supplies no balance leaves balance = c - a when a < c and 0 when a >= c.
C17_ReceivedNoBalanceStep ==
    \A pid \in 1..MaxPayments, data \in PaymentUpdates :
        (/\ \E x \in payments : x.id = pid
         /\ data.status # Absent
         /\ Lower(data.status) = "received"
         /\ data.balance = Missing
         /\ data.advance_payment = Missing
         /\ UpdateClientPayment(pid, data))
        => LET old == PaymentOf(payments, pid)
               new == PaymentOf(payments', pid)
           IN  new.balance = IF old.advance_payment < old.cost
                             THEN old.cost - old.advance_payment ELSE 0

C17_ReceivedNoBalance == [][C17_ReceivedNoBalanceStep]_vars

\* no two stored payments with the same (trip_code, client_name)
UniquePairs(pays) ==
    \A x \in pays, y \in pays :
        (x.trip_code = y.trip_code /\ x.client_name = y.client_name) => x = y

\* C18: client-payment uniqueness. In every state reached by create, update and
\* delete of client payments no two stored payments have the same (trip_code,
\* client_name); a create for a stored pair is answered 400 and stores nothing,
\* a create for a pair that is not stored (never stored, or deleted since) is
\* answered 201 and stores the payment.
C18_UniqueStep ==
    /\ UniquePairs(payments')
    /\ \A c \in ClientNames, cost \in CostAmounts, a \in AdvanceAmounts,
          b \in BalanceAmounts, st \in PaymentStatuses :
           LET data == PaymentBody(Num(c), cost, a, b, st)
           IN  CreateClientPayment(data) =>
                   IF \E x \in payments : x.trip_code = 1 /\ x.client_name = c
                   THEN last'.status = 400 /\ payments' = payments
                   ELSE /\ last'.status = 201
                        /\ Cardinality(payments') = Cardinality(payments) + 1
                        /\ \E x \in payments' : x.trip_code = 1 /\ x.client_name = c

C18_Unique == [][C18_UniqueStep]_vars

\* a create for a stored pair was just rejected, and the stored payment of the
\* pair is not the first document of the collection (an earlier one was deleted)
C18_Witness ==
    /\ last.op = "create_client_payment"
    /\ last.status = 400
    /\ \E x \in payments : x.id > 1
    /\ Cardinality(payments) = 1

\* C19: sub-trip span invariant. In every state reached by create_subtrip and
\* update_subtrip (updates of `date` alone or `end_date` alone included) every
\* stored sub-trip has date <= end_date.
C19_SpanInvariant == \A x \in subtrips : x.date.d <= x.end_date.d

\* C20: other_expenses invariant. In every state reached by create_trip and
\* update_trip (partial updates and unparsable values included) each stored
\* trip's other_expenses is the sum of its stored toll, rto, adblue,
\* driver_salary, labour_charges and extra_expense.
C20_OtherExpenses ==
    \A t \in DOMAIN trips :
        trips[t].other_expenses =
            trips[t].toll + trips[t].rto + trips[t].adblue + trips[t].driver_salary
            + trips[t].labour_charges + trips[t].extra_expense

\* a stored trip with a non-zero adblue cost, after an update_trip whose body
\* left at least one cost key to its stored value
C20_Witness ==
    /\ last.op = "update_trip"
    /\ last.status = 200
    /\ \E t \in DOMAIN trips :
           /\ trips[t].adblue > 0
           /\ trips[t].toll > 1
           /\ trips[t].other_expenses > 3

(***************************************************************************)
(* Analytics                                                                *)
(***************************************************************************)
\* the request the stored analytics response answers
Args == analytics.args

WindowStart == Args.now - Args.days

\* the Completed trips of the window whose stored truck_id and driver_id are the
\* strings the request names
Matching ==
    {i \in DOMAIN trips :
        /\ trips[i].status = "Completed"
        /\ trips[i].start_date.d >= WindowStart
        /\ trips[i].start_date.d <= Args.now
        /\ Args.truck_id # NoFilter => trips[i].truck_id = Args.truck_id
        /\ Args.driver_id # NoFilter => Hex(trips[i].driver_id) = Args.driver_id}

\* the trips the handler summed
Counted ==
    CompletedTrips(trips,
        TripFilter(trips, WindowStart, Args.now, Args.truck_id, Args.driver_id))

OnDay(S, day) == {i \in S : trips[i].start_date.d = day}

IsZero(r) == r.num = 0

C22_SeriesShape ==
    (analytics.status = 200 /\ Args.days >= 1) =>
        /\ Len(analytics.profit_trends) = Args.days
        /\ Len(analytics.fuel_efficiency) = Args.days
        /\ \A k \in 1..Args.days :
               /\ analytics.profit_trends[k].date = WindowStart + k - 1
               /\ analytics.fuel_efficiency[k].date = WindowStart + k - 1
               /\ analytics.profit_trends[k].profit =
                      SumField(trips, OnDay(Counted, analytics.profit_trends[k].date), "revenue")
                      - SumField(trips, OnDay(Counted, analytics.profit_trends[k].date), "fuel_cost")
                      - SumField(trips, OnDay(Counted, analytics.profit_trends[k].date), "other_expenses")

\* the profit of truck t over the Completed trips of the window that carry its id
ProfitOf(t) ==
    LET own == {i \in Matching : trips[i].truck_id = Hex(t)}
    IN  SumField(trips, own, "revenue") - SumField(trips, own, "fuel_cost")
        - SumField(trips, own, "other_expenses")

TripsOf(t) == Cardinality({i \in Matching : trips[i].truck_id = Hex(t)})

Listed == {analytics.high_performing_trucks[k].truck :
              k \in DOMAIN analytics.high_performing_trucks}

Smaller(a, b) == IF a < b THEN a ELSE b

\* C23: high_performing_trucks holds min(5, number of Active trucks) entries, of
\* distinct Active trucks, in non-increasing order of profit; no Active truck left
\* out has a profit above the smallest one listed; each entry's profit is the
\* truck's revenue less fuel cost less other expenses over its Completed trips of
\* the window, and avg_profit_per_trip is profit / trips, 0 without such a trip.
C23_TopTrucks ==
    analytics.status = 200 =>
        LET hp == analytics.high_performing_trucks
            act == {t \in DOMAIN trucks : trucks[t].status = "Active"}
        IN  /\ Len(hp) = Smaller(TopLimit, Cardinality(act))
            /\ Cardinality(Listed) = Len(hp)
            /\ Listed \subseteq act
            /\ \A k \in 1..Len(hp) - 1 : hp[k].profit >= hp[k + 1].profit
            /\ \A t \in act \ Listed : ProfitOf(t) <= hp[Len(hp)].profit
            /\ \A k \in DOMAIN hp :
                   /\ hp[k].profit = ProfitOf(hp[k].truck)
                   /\ hp[k].trips = TripsOf(hp[k].truck)
                   /\ IF hp[k].trips = 0 THEN IsZero(hp[k].avg_profit_per_trip)
                      ELSE hp[k].avg_profit_per_trip =
                               [num |-> hp[k].profit, den |-> hp[k].trips]

\* six Active trucks, the last one listed first with a profit of 2 and the first
\* one left out with a loss
C23_Witness ==
    /\ analytics.status = 200
    /\ Len(trucks) = TopLimit + 1
    /\ \A t \in DOMAIN trucks : trucks[t].status = "Active"
    /\ analytics.high_performing_trucks[1].truck = TopLimit + 1
    /\ analytics.high_performing_trucks[1].profit = 2
    /\ 1 \notin Listed
    /\ ProfitOf(1) < 0

\* C24: for trips created through create_trip, a request with truck_id = T or
\* driver_id = D counts exactly the Completed trips of the window whose stored
\* truck_id is T, or whose stored driver_id is D, a well-formed 24-hex identifier
\* included.
C24_FilterCounts ==
    analytics.status = 200 => analytics.total_trips = Cardinality(Matching)

\* the driver update_trip checks: the request's when it names one, the trip's if not
EffectiveDriver(t, data) ==
    IF data.driver_id = Missing THEN trips[t].driver_id ELSE data.driver_id.d

EffectiveDate(data_val, stored) == IF data_val = Missing THEN stored ELSE Naive(data_val.d)

\* C28: an update_trip request for a stored trip whose effective driver is
\* missing or not Active is answered 400 and changes nothing, whichever key the
\* request carries; and one whose effective driver has another trip, not
\* Cancelled, overlapping the effective dates is answered 400 and changes nothing
\* even when the updated trip is Cancelled or the request cancels it.
C28_DriverCheckedStep ==
    \A t \in DOMAIN trips, data \in BookUpdates :
        UpdateTrip(t, data) =>
            LET driver == EffectiveDriver(t, data)
                start == EffectiveDate(data.start_date, trips[t].start_date)
                end == EffectiveDate(data.end_date, trips[t].end_date)
            IN  /\ (driver \notin DOMAIN employees \/ employees[driver].status # "Active")
                       => (last'.status = 400 /\ trips' = trips)
                /\ (/\ end.k = "naive"
                    /\ start.d <= end.d
                    /\ Blockers(driver, start.d, end.d) \ {t} # {})
                       => (last'.status = 400 /\ trips' = trips)

AttrOfType(type) ==
    CHOOSE attr \in {"license", "insurance", "fc", "permit"} :
        type \in {ExpiryType(attr), ExpiredType(attr)}

\* C29: after a reconciliation pass every Active alert's alert_date is the current
\* expiry date of its owner for the alert's attribute, also after the date moved
\* to another value of the same class.
C29_AlertDateCurrent ==
    resp.status = 200 =>
        \A i \in DOMAIN alerts :
            alerts[i].status = "Active" =>
                /\ alerts[i].owner \in DOMAIN EntsOf(alerts[i].kind)
                /\ FieldOf(EntsOf(alerts[i].kind)[alerts[i].owner],
                           AttrOfType(alerts[i].type)) = Naive(alerts[i].alert_date)

(***************************************************************************)
(* Concurrent requests                                                      *)
(***************************************************************************)
\* C25: when the steps of two get_alerts requests interleave, a request that read
\* that no Active alert exists for the truck and the alert type inserts one even
\* though the other request has inserted one since, which leaves two Active
\* alerts for that truck and alert type.
C25_BothInsertStep ==
    \A p \in Requests :
        (/\ AlertsInsert(p)
         /\ FoundOf(inflight[p]) = 0
         /\ ActiveOf(alerts, "truck", 1, DocOf(inflight[p]).type) # {})
        => Cardinality(ActiveOf(alerts', "truck", 1, DocOf(inflight[p]).type)) >= 2

C25_BothInsert == [][C25_BothInsertStep]_vars

\* both requests read no Active alert, both have made their insert, and two Active
\* alerts of one type exist for the truck
C25_Witness ==
    /\ \A p \in Requests :
           /\ inflight[p].pc = "respond"
           /\ inflight[p].branch = "soon"
           /\ inflight[p].existing = 0
    /\ Cardinality(ActiveOf(alerts, "truck", 1, ExpiryType("insurance"))) = 2

\* the alert type the truck's insurance_expiry calls for at the present clock
WantedType ==
    LET branch == BranchOf(trucks[1].insurance, clock + Horizon, clock)
    IN  CASE branch = "expired" -> ExpiredType("insurance")
          [] branch = "soon" -> ExpiryType("insurance")
          [] OTHER -> "none"

\* C26: from a state in which a truck has two or more Active alerts of the type
\* its date calls for, one get_alerts request served alone, the truck and the
\* clock unchanged, leaves at most one Active alert for every owner and type.
C26_CollapsedStep ==
    (/\ Busy = {}
     /\ trucks # <<>>
     /\ Cardinality(ActiveOf(alerts, "truck", 1, WantedType)) >= 2
     /\ GetAlerts([i \in 1..8 |-> clock], MaxAlerts)
     /\ resp'.status = 200)
    => C1_AtMostOneActive'

C26_Collapsed == [][C26_CollapsedStep]_vars

\* C27: a create_trip request whose checks passed inserts its trip even though a
\* trip of the same driver, not Cancelled and overlapping its dates, was stored
\* since, which leaves two non-Cancelled overlapping trips for that driver.
C27_BothBookedStep ==
    \A p \in Requests :
        (/\ TripStore(p)
         /\ FromIso(inflight[p].data.start_date).d <= FromIso(inflight[p].data.end_date).d
         /\ Blockers(inflight[p].data.driver_id.d,
                     FromIso(inflight[p].data.start_date).d,
                     FromIso(inflight[p].data.end_date).d) # {})
        => \E i, j \in DOMAIN trips' :
               /\ i # j
               /\ trips'[i].driver_id = trips'[j].driver_id
               /\ trips'[i].status # "Cancelled"
               /\ trips'[j].status # "Cancelled"
               /\ Overlapping(trips'[i], trips'[j])

C27_BothBooked == [][C27_BothBookedStep]_vars

\* both requests ran their checks on the empty collection, both were answered 201,
\* and their two trips, of one driver and not Cancelled, overlap
C27_Witness ==
    /\ \A p \in Requests :
           /\ inflight[p].pc = "done"
           /\ inflight[p].status = 201
           /\ inflight[p].seen = 0
    /\ Len(trips) = 2
    /\ trips[1].driver_id = trips[2].driver_id
    /\ trips[1].status # "Cancelled"
    /\ trips[2].status # "Cancelled"
    /\ trips[1].start_date.d <= trips[1].end_date.d
    /\ trips[2].start_date.d <= trips[2].end_date.d
    /\ Overlapping(trips[1], trips[2])

\* C30: once two sub-trip requests on one trip that ran concurrently have both
\* completed, the trip's revenue is the sum of cost over its stored sub-trips.
C30_RevenueAfterRace ==
    (/\ \A p \in Requests : inflight[p].pc = "done"
     /\ 1 \in DOMAIN trips)
    => trips[1].revenue = CostsOf(subtrips, 1)

====
